---- MODULE Spec2Model ----
(***************************************************************************)
(* Rule-driven data quality assessment: AssessmentEngine.run_checks and    *)
(* the check library it dispatches to (data_quality_tool).                 *)
(*                                                                         *)
(* Python values are records [k, s, n]: k is the kind ("none", "str",      *)
(* "int", "float", "list"; "absent" marks a key a rule mapping does not    *)
(* hold), s the text of a string, n the number (or the length of a list).  *)
(* A message is the sequence of its space-separated words, an interpolated *)
(* value being one word (quotes and punctuation around it are words of     *)
(* their own).                                                             *)
(***************************************************************************)
EXTENDS Integers, Sequences, FiniteSets, TLC

VARIABLES dataframe, rules, results, calls, pc

vars == <<dataframe, rules, results, calls, pc>>

----------------------------------------------------------------------------
(* Python values *)

Absent == [k |-> "absent", s |-> "", n |-> 0]
None == [k |-> "none", s |-> "", n |-> 0]
StrV(t) == [k |-> "str", s |-> t, n |-> 0]
IntV(m) == [k |-> "int", s |-> "", n |-> m]
FloatV(m) == [k |-> "float", s |-> "", n |-> m]
ListV(m) == [k |-> "list", s |-> "", n |-> m]

(* bool(v): None, "", 0, 0.0 and [] are falsy *)
Truthy(v) ==
    CASE v.k = "none" -> FALSE
      [] v.k = "str" -> v.s # ""
      [] OTHER -> v.n # 0

(* hash(v) succeeds: a list is unhashable *)
Hashable(v) == v.k # "list"

(* the word an f-string writes for {v} *)
Fmt(v) == IF v.k = "none" THEN StrV("None") ELSE v

(* the words of a literal text *)
W(ws) == [j \in 1..Len(ws) |-> StrV(ws[j])]

(* the outcome of a call: a returned value, or an exception on its way up *)
Ok(r) == [exc |-> "none", rec |-> r]
Raise(e) == [exc |-> e, rec |-> None]

(* dict.get(key): None when the key is not in the mapping *)
Get(rule, key) == IF rule[key].k = "absent" THEN None ELSE rule[key]

RECURSIVE CountTrue(_)
CountTrue(bs) ==
    IF bs = <<>> THEN 0
    ELSE (IF bs[1] THEN 1 ELSE 0) + CountTrue(Tail(bs))

----------------------------------------------------------------------------
(* The dataset: named columns of cells, each column with its dtype *)

HasColumn(df, name) ==
    /\ name.k = "str"
    /\ \E j \in 1..Len(df.columns) : df.columns[j] = name.s

Column(df, name) == df.cells[name.s]

NRows(df) == df.nrows

(* a faulty variant: a comparison with None, which no cell of a Series *)
(* satisfies                                                          *)
IsNull_ByEquality(cell) == FALSE

IsNull(cell) == cell.k = "none"

----------------------------------------------------------------------------
(* checks.py: check_completeness *)

ColumnNotFoundMsg(column_name) ==
    W(<<"Column", "'">>) \o <<Fmt(column_name)>>
        \o W(<<"'", "not", "found", "in", "DataFrame.">>)

check_completeness(df, column_name) ==
    IF ~Hashable(column_name) THEN Raise("TypeError")
    ELSE IF ~HasColumn(df, column_name) THEN
        Ok([rule_type |-> StrV("completeness"),
            column |-> column_name,
            status |-> "error",
            message |-> ColumnNotFoundMsg(column_name),
            details |-> None])
    ELSE
        LET col == Column(df, column_name)
            missing_count == CountTrue([j \in 1..Len(col) |-> IsNull(col[j])])
            total_processed_rows == NRows(df)
        IN  Ok([rule_type |-> StrV("completeness"),
                column |-> column_name,
                status |-> IF missing_count = 0 THEN "passed" ELSE "failed",
                message |-> IF missing_count = 0
                            THEN W(<<"No", "missing", "values", "found.">>)
                            ELSE W(<<"Found">>) \o <<IntV(missing_count)>>
                                     \o W(<<"missing", "values.">>),
                details |-> [missing_count |-> missing_count,
                             total_rows |-> total_processed_rows]])

(* checks.py: check_uniqueness; Series.duplicated() marks every row whose *)
(* value occurred at an earlier row (nulls are equal to each other)       *)
(* a faulty variant: duplicated(keep=False), which marks every occurrence *)
duplicated_KeepFalse(col) ==
    [j \in 1..Len(col) |-> \E h \in 1..Len(col) : h # j /\ col[h] = col[j]]

duplicated(col) ==
    [j \in 1..Len(col) |-> \E h \in 1..(j - 1) : col[h] = col[j]]

check_uniqueness(df, column_name) ==
    IF ~Hashable(column_name) THEN Raise("TypeError")
    ELSE IF ~HasColumn(df, column_name) THEN
        Ok([rule_type |-> StrV("uniqueness"),
            column |-> column_name,
            status |-> "error",
            message |-> ColumnNotFoundMsg(column_name),
            details |-> None])
    ELSE
        LET col == Column(df, column_name)
            duplicate_count == CountTrue(duplicated(col))
            total_processed_rows == NRows(df)
        IN  Ok([rule_type |-> StrV("uniqueness"),
                column |-> column_name,
                status |-> IF duplicate_count = 0 THEN "passed" ELSE "failed",
                message |-> IF duplicate_count = 0
                            THEN W(<<"No", "duplicate", "values", "found.">>)
                            ELSE W(<<"Found">>) \o <<IntV(duplicate_count)>>
                                     \o W(<<"duplicate", "values.">>),
                details |-> [duplicate_count |-> duplicate_count,
                             total_rows |-> total_processed_rows]])

(* str.lower() of a dtype name *)
Lower(t) == IF t = "Int64" THEN "int64" ELSE t

(* a faulty variant: the type names are compared without regard to case *)
check_data_type_IgnoreCase(df, column_name, expected_type) ==
    IF ~Hashable(column_name) THEN Raise("TypeError")
    ELSE IF ~HasColumn(df, column_name) THEN
        Ok([rule_type |-> StrV("data_type"),
            column |-> column_name,
            expected_type |-> expected_type,
            actual_type |-> None,
            status |-> "error",
            message |-> W(<<"Column", "'">>) \o <<Fmt(column_name)>>
                          \o W(<<"'", "not", "found", "in", "DataFrame.">>)])
    ELSE
        LET actual_type == StrV(df.dtype[column_name.s])
            matches == Lower(actual_type.s) = Lower(expected_type.s)
        IN  Ok([rule_type |-> StrV("data_type"),
                column |-> column_name,
                expected_type |-> expected_type,
                actual_type |-> actual_type,
                status |-> IF matches THEN "passed" ELSE "failed",
                message |-> IF matches
                            THEN W(<<"Data", "type", "matches", "expected", "type.">>)
                            ELSE W(<<"Data", "type", "mismatch.">>)])

(* checks.py: check_data_type; its records carry no details key *)
check_data_type(df, column_name, expected_type) ==
    IF ~Hashable(column_name) THEN Raise("TypeError")
    ELSE IF ~HasColumn(df, column_name) THEN
        Ok([rule_type |-> StrV("data_type"),
            column |-> column_name,
            expected_type |-> expected_type,
            actual_type |-> None,
            status |-> "error",
            message |-> ColumnNotFoundMsg(column_name)])
    ELSE
        LET actual_type == StrV(df.dtype[column_name.s])
        IN  Ok([rule_type |-> StrV("data_type"),
                column |-> column_name,
                expected_type |-> expected_type,
                actual_type |-> actual_type,
                status |-> IF actual_type = expected_type THEN "passed" ELSE "failed",
                message |-> IF actual_type = expected_type
                            THEN W(<<"Data", "type", "matches", "expected", "type.">>)
                            ELSE W(<<"Data", "type", "mismatch.">>)])

----------------------------------------------------------------------------
(* Conversions, as Python and pandas compute them on the texts and numbers *)
(* the datasets and rules below are made of                                *)

(* float(text): the number a numeric literal denotes, ValueError otherwise *)
IsFloatLiteral(t) == t \in {"0", "20", "24", "30", "40"}

FloatOfLiteral(t) ==
    CASE t = "0" -> 0
      [] t = "20" -> 20
      [] t = "24" -> 24
      [] t = "30" -> 30
      [] t = "40" -> 40

(* float(v): TypeError for a value that is neither a number nor a string *)
PyFloat(v) ==
    CASE v.k \in {"int", "float"} -> Ok(FloatV(v.n))
      [] v.k = "str" -> IF IsFloatLiteral(v.s) THEN Ok(FloatV(FloatOfLiteral(v.s)))
                        ELSE Raise("ValueError")
      [] OTHER -> Raise("TypeError")

(* pd.to_numeric(cell, errors='coerce'): NaN for a null and for a failure *)
NaN == [nan |-> TRUE, n |-> 0]

to_numeric(cell) ==
    CASE cell.k \in {"int", "float"} -> [nan |-> FALSE, n |-> cell.n]
      [] cell.k = "str" /\ IsFloatLiteral(cell.s) ->
            [nan |-> FALSE, n |-> FloatOfLiteral(cell.s)]
      [] OTHER -> NaN

(* str(number), as Series.astype(str) writes an integer cell *)
NumText(m) ==
    CASE m = 0 -> "0"
      [] m = 1 -> "1"
      [] m = 2 -> "2"
      [] m = 3 -> "3"
      [] m = 20 -> "20"
      [] m = 24 -> "24"
      [] m = 30 -> "30"
      [] m = 40 -> "40"
      [] OTHER -> "<number>"

astype_str(cell) == IF cell.k = "str" THEN cell.s ELSE NumText(cell.n)

(* a Timestamp: days since 1970-01-01 and nanoseconds into the day; NaT *)
NaT == [nat |-> TRUE, day |-> 0, ns |-> 0]
Timestamp(d, m) == [nat |-> FALSE, day |-> d, ns |-> m]

IsDateLiteral(t) ==
    t \in {"2023-01-01", "2023-01-15", "2023-02-01", "2023-03-01", "2023-12-31"}

DayOfLiteral(t) ==
    CASE t = "2023-01-01" -> 19358
      [] t = "2023-01-15" -> 19372
      [] t = "2023-02-01" -> 19389
      [] t = "2023-03-01" -> 19417
      [] t = "2023-12-31" -> 19722

(* the texts pandas reads as a missing date: they give NaT, no error *)
IsNullDateText(t) == t \in {"", "NaT"}

(* pd.to_datetime(scalar): a number counts nanoseconds from the epoch,   *)
(* None and a null marker give NaT, a text that is no date raises        *)
(* ValueError                                                            *)
to_datetime_scalar(v) ==
    CASE v.k = "none" -> Ok(NaT)
      [] v.k = "str" /\ IsNullDateText(v.s) -> Ok(NaT)
      [] v.k \in {"int", "float"} -> Ok(Timestamp(0, v.n))
      [] v.k = "str" -> IF IsDateLiteral(v.s) THEN Ok(Timestamp(DayOfLiteral(v.s), 0))
                        ELSE Raise("ValueError")
      [] OTHER -> Raise("TypeError")

(* pd.to_datetime(cell, errors='coerce') *)
to_datetime(cell) ==
    LET r == to_datetime_scalar(cell)
    IN  IF r.exc = "none" THEN r.rec ELSE NaT

(* a faulty variant: a < b *)
TsLe_Strict(a, b) ==
    /\ ~a.nat
    /\ ~b.nat
    /\ \/ a.day < b.day
       \/ a.day = b.day /\ a.ns < b.ns

(* a <= b on Timestamps: every comparison with NaT is False *)
TsLe(a, b) ==
    /\ ~a.nat
    /\ ~b.nat
    /\ \/ a.day < b.day
       \/ a.day = b.day /\ a.ns <= b.ns

TsGt(a, b) == ~a.nat /\ ~b.nat /\ ~TsLe(a, b)

(* the date() of a Timestamp as a message word *)
DateV(ts) == IF ts.nat THEN StrV("NaT") ELSE [k |-> "date", s |-> "", n |-> ts.day]

(* re.compile(pattern): TypeError for a pattern that is no string, *)
(* re.error for an unterminated character set                      *)
re_compile(pattern) ==
    CASE pattern.k # "str" -> Raise("TypeError")
      [] pattern.s = "[" -> Raise("re.error")
      [] OTHER -> Ok(pattern)

(* a faulty variant: compiled.search(text), a match anywhere in the text *)
re_search(pattern, t) ==
    CASE pattern.s = "" -> TRUE
      [] pattern.s = "^A" -> t \in {"A", "Alice"}
      [] pattern.s = "A" -> t \in {"A", "Alice", "BA"}
      [] pattern.s = "A$" -> t \in {"A", "BA"}
      [] pattern.s = "^[A-Z][a-z]*$" -> t \in {"A", "Alice", "Bob", "Carol"}
      [] pattern.s = "2" -> t \in {"2", "20", "24", "2023-01-01", "2023-01-15",
                                   "2023-02-01", "2023-03-01", "2023-12-31"}
      [] OTHER -> FALSE

(* compiled.match(text): a match anchored at the start of the text *)
re_match(pattern, t) ==
    CASE pattern.s = "" -> TRUE
      [] pattern.s = "^A" -> t \in {"A", "Alice"}
      [] pattern.s = "A" -> t \in {"A", "Alice"}
      [] pattern.s = "A$" -> t \in {"A"}
      [] pattern.s = "^[A-Z][a-z]*$" -> t \in {"A", "Alice", "Bob", "Carol"}
      [] pattern.s = "2" -> t \in {"2", "20", "24", "2023-01-01", "2023-01-15",
                                   "2023-02-01", "2023-03-01", "2023-12-31"}
      [] OTHER -> FALSE

----------------------------------------------------------------------------
(* checks.py: check_accuracy_range *)

AccuracyMessage(min_value, max_value, original_non_null_count, valid_numeric_rows, non_numeric_rows, in_range_count) ==
    IF valid_numeric_rows = 0 /\ non_numeric_rows = 0 /\ original_non_null_count = 0
    THEN W(<<"Column", "contains", "only", "null", "values", "or", "is", "empty.",
             "No", "numeric", "data", "to", "check.">>)
    ELSE IF valid_numeric_rows = 0 /\ non_numeric_rows > 0
    THEN W(<<"No", "valid", "numeric", "data", "to", "check;">>)
            \o <<IntV(non_numeric_rows)>> \o W(<<"values", "were", "non-numeric.">>)
    ELSE W(<<>>) \o <<IntV(in_range_count)>> \o W(<<"out", "of">>)
            \o <<IntV(valid_numeric_rows)>>
            \o W(<<"numeric", "values", "are", "within", "the", "specified",
                   "range", "[">>)
            \o <<min_value>> \o W(<<",">>) \o <<max_value>> \o W(<<"].">>)
            \o (IF non_numeric_rows > 0
                THEN <<IntV(non_numeric_rows)>>
                        \o W(<<"additional", "values", "were", "non-numeric.">>)
                ELSE <<>>)

(* a faulty variant: the upper bound is exclusive *)
check_accuracy_range_ExclusiveMax(df, column_name, min_value, max_value) ==
    IF ~Hashable(column_name) THEN Raise("TypeError")
    ELSE IF ~HasColumn(df, column_name) THEN
        Ok([rule_type |-> StrV("accuracy_range_check"),
            column |-> column_name,
            min_value |-> min_value,
            max_value |-> max_value,
            status |-> "error",
            message |-> ColumnNotFoundMsg(column_name),
            details |-> None])
    ELSE IF min_value.n > max_value.n THEN
        Ok([rule_type |-> StrV("accuracy_range_check"),
            column |-> column_name,
            min_value |-> min_value,
            max_value |-> max_value,
            status |-> "error",
            message |-> W(<<"min_value", "(">>) \o <<min_value>>
                          \o W(<<")", "cannot", "be", "greater", "than",
                                 "max_value", "(">>)
                          \o <<max_value>> \o W(<<").">>),
            details |-> None])
    ELSE
        LET col == Column(df, column_name)
            original_non_null_count ==
                CountTrue([j \in 1..Len(col) |-> ~IsNull(col[j])])
            numeric_column == [j \in 1..Len(col) |-> to_numeric(col[j])]
            valid_numeric_rows ==
                CountTrue([j \in 1..Len(col) |-> ~numeric_column[j].nan])
            non_numeric_rows == original_non_null_count - valid_numeric_rows
            in_range_count ==
                CountTrue([j \in 1..Len(col) |->
                             /\ ~numeric_column[j].nan
                             /\ numeric_column[j].n >= min_value.n
                             /\ numeric_column[j].n < max_value.n])
            out_of_range_count == valid_numeric_rows - in_range_count
        IN  Ok([rule_type |-> StrV("accuracy_range_check"),
                column |-> column_name,
                min_value |-> min_value,
                max_value |-> max_value,
                status |-> IF out_of_range_count > 0 \/ non_numeric_rows > 0
                           THEN "failed" ELSE "passed",
                message |-> AccuracyMessage(min_value, max_value,
                                original_non_null_count, valid_numeric_rows,
                                non_numeric_rows, in_range_count),
                details |-> [total_rows |-> NRows(df),
                             valid_numeric_rows |-> valid_numeric_rows,
                             non_numeric_rows |-> non_numeric_rows,
                             in_range_count |-> in_range_count,
                             out_of_range_count |-> out_of_range_count]])

(* a faulty variant: the bounds are tested before the column *)
check_accuracy_range_BoundsFirst(df, column_name, min_value, max_value) ==
    IF ~Hashable(column_name) THEN Raise("TypeError")
    ELSE IF min_value.n > max_value.n THEN
        Ok([rule_type |-> StrV("accuracy_range_check"),
            column |-> column_name,
            min_value |-> min_value,
            max_value |-> max_value,
            status |-> "error",
            message |-> W(<<"min_value", "(">>) \o <<min_value>>
                          \o W(<<")", "cannot", "be", "greater", "than",
                                 "max_value", "(">>)
                          \o <<max_value>> \o W(<<").">>),
            details |-> None])
    ELSE IF ~HasColumn(df, column_name) THEN
        Ok([rule_type |-> StrV("accuracy_range_check"),
            column |-> column_name,
            min_value |-> min_value,
            max_value |-> max_value,
            status |-> "error",
            message |-> ColumnNotFoundMsg(column_name),
            details |-> None])
    ELSE
        LET col == Column(df, column_name)
            original_non_null_count ==
                CountTrue([j \in 1..Len(col) |-> ~IsNull(col[j])])
            numeric_column == [j \in 1..Len(col) |-> to_numeric(col[j])]
            valid_numeric_rows ==
                CountTrue([j \in 1..Len(col) |-> ~numeric_column[j].nan])
            non_numeric_rows == original_non_null_count - valid_numeric_rows
            in_range_count ==
                CountTrue([j \in 1..Len(col) |->
                             /\ ~numeric_column[j].nan
                             /\ numeric_column[j].n >= min_value.n
                             /\ numeric_column[j].n <= max_value.n])
            out_of_range_count == valid_numeric_rows - in_range_count
        IN  Ok([rule_type |-> StrV("accuracy_range_check"),
                column |-> column_name,
                min_value |-> min_value,
                max_value |-> max_value,
                status |-> IF out_of_range_count > 0 \/ non_numeric_rows > 0
                           THEN "failed" ELSE "passed",
                message |-> AccuracyMessage(min_value, max_value,
                                original_non_null_count, valid_numeric_rows,
                                non_numeric_rows, in_range_count),
                details |-> [total_rows |-> NRows(df),
                             valid_numeric_rows |-> valid_numeric_rows,
                             non_numeric_rows |-> non_numeric_rows,
                             in_range_count |-> in_range_count,
                             out_of_range_count |-> out_of_range_count]])

check_accuracy_range(df, column_name, min_value, max_value) ==
    IF ~Hashable(column_name) THEN Raise("TypeError")
    ELSE IF ~HasColumn(df, column_name) THEN
        Ok([rule_type |-> StrV("accuracy_range_check"),
            column |-> column_name,
            min_value |-> min_value,
            max_value |-> max_value,
            status |-> "error",
            message |-> ColumnNotFoundMsg(column_name),
            details |-> None])
    ELSE IF min_value.n > max_value.n THEN
        Ok([rule_type |-> StrV("accuracy_range_check"),
            column |-> column_name,
            min_value |-> min_value,
            max_value |-> max_value,
            status |-> "error",
            message |-> W(<<"min_value", "(">>) \o <<min_value>>
                          \o W(<<")", "cannot", "be", "greater", "than",
                                 "max_value", "(">>)
                          \o <<max_value>> \o W(<<").">>),
            details |-> None])
    ELSE
        LET col == Column(df, column_name)
            original_non_null_count ==
                CountTrue([j \in 1..Len(col) |-> ~IsNull(col[j])])
            numeric_column == [j \in 1..Len(col) |-> to_numeric(col[j])]
            valid_numeric_rows ==
                CountTrue([j \in 1..Len(col) |-> ~numeric_column[j].nan])
            non_numeric_rows == original_non_null_count - valid_numeric_rows
            in_range_count ==
                CountTrue([j \in 1..Len(col) |->
                             /\ ~numeric_column[j].nan
                             /\ numeric_column[j].n >= min_value.n
                             /\ numeric_column[j].n <= max_value.n])
            out_of_range_count == valid_numeric_rows - in_range_count
        IN  Ok([rule_type |-> StrV("accuracy_range_check"),
                column |-> column_name,
                min_value |-> min_value,
                max_value |-> max_value,
                status |-> IF out_of_range_count > 0 \/ non_numeric_rows > 0
                           THEN "failed" ELSE "passed",
                message |-> AccuracyMessage(min_value, max_value,
                                original_non_null_count, valid_numeric_rows,
                                non_numeric_rows, in_range_count),
                details |-> [total_rows |-> NRows(df),
                             valid_numeric_rows |-> valid_numeric_rows,
                             non_numeric_rows |-> non_numeric_rows,
                             in_range_count |-> in_range_count,
                             out_of_range_count |-> out_of_range_count]])

----------------------------------------------------------------------------
(* checks.py: check_consistency_date_order *)

(* ', '.join(missing_cols) inside one pair of quotes *)
DateOrderNotFoundMsg(df, column_a_name, column_b_name) ==
    W(<<"Column(s)", "'">>)
        \o (IF ~HasColumn(df, column_a_name) THEN <<Fmt(column_a_name)>> ELSE <<>>)
        \o (IF ~HasColumn(df, column_a_name) /\ ~HasColumn(df, column_b_name)
            THEN W(<<",">>) ELSE <<>>)
        \o (IF ~HasColumn(df, column_b_name) THEN <<Fmt(column_b_name)>> ELSE <<>>)
        \o W(<<"'", "not", "found", "in", "DataFrame.">>)

DateOrderMessage(valid_date_pairs_count, invalid_date_pairs_count, order_violated_count) ==
    (IF order_violated_count > 0
     THEN <<IntV(order_violated_count)>> \o W(<<"out", "of">>)
            \o <<IntV(valid_date_pairs_count)>>
            \o W(<<"valid", "date", "pairs", "violated", "the", "order",
                   "condition", "(A", ">", "B).">>)
     ELSE IF valid_date_pairs_count > 0
     THEN W(<<"All">>) \o <<IntV(valid_date_pairs_count)>>
            \o W(<<"valid", "date", "pairs", "satisfy", "the", "order",
                   "condition", "(A", "<=", "B).">>)
     ELSE W(<<"No", "valid", "date", "pairs", "to", "compare.">>))
    \o (IF invalid_date_pairs_count > 0
        THEN <<IntV(invalid_date_pairs_count)>>
                \o W(<<"pairs", "had", "at", "least", "one",
                       "invalid/unparseable", "date.">>)
        ELSE <<>>)

check_consistency_date_order(df, column_a_name, column_b_name) ==
    IF ~Hashable(column_a_name) \/ ~Hashable(column_b_name) THEN Raise("TypeError")
    ELSE IF ~HasColumn(df, column_a_name) \/ ~HasColumn(df, column_b_name) THEN
        Ok([rule_type |-> StrV("consistency_date_order_check"),
            column_a |-> column_a_name,
            column_b |-> column_b_name,
            status |-> "error",
            message |-> DateOrderNotFoundMsg(df, column_a_name, column_b_name),
            details |-> None])
    ELSE
        LET col_a == Column(df, column_a_name)
            col_b == Column(df, column_b_name)
            rows == 1..NRows(df)
            date_a == [j \in rows |-> to_datetime(col_a[j])]
            date_b == [j \in rows |-> to_datetime(col_b[j])]
            valid_mask == [j \in rows |-> ~date_a[j].nat /\ ~date_b[j].nat]
            failed_conversion_a_mask ==
                [j \in rows |-> ~IsNull(col_a[j]) /\ date_a[j].nat]
            failed_conversion_b_mask ==
                [j \in rows |-> ~IsNull(col_b[j]) /\ date_b[j].nat]
            invalid_date_pairs_count ==
                CountTrue([j \in rows |->
                    failed_conversion_a_mask[j] \/ failed_conversion_b_mask[j]])
            valid_date_pairs_count ==
                CountTrue([j \in rows |->
                    /\ ~IsNull(col_a[j]) /\ ~IsNull(col_b[j])
                    /\ ~date_a[j].nat /\ ~date_b[j].nat])
            order_satisfied_count ==
                IF valid_date_pairs_count > 0
                THEN CountTrue([j \in rows |->
                        valid_mask[j] /\ TsLe(date_a[j], date_b[j])])
                ELSE 0
            order_violated_count ==
                IF valid_date_pairs_count > 0
                THEN valid_date_pairs_count - order_satisfied_count
                ELSE 0
        IN  Ok([rule_type |-> StrV("consistency_date_order_check"),
                column_a |-> column_a_name,
                column_b |-> column_b_name,
                status |-> IF order_violated_count > 0 \/ invalid_date_pairs_count > 0
                           THEN "failed" ELSE "passed",
                message |-> DateOrderMessage(valid_date_pairs_count,
                                invalid_date_pairs_count, order_violated_count),
                details |-> [total_rows |-> NRows(df),
                             valid_date_pairs_count |-> valid_date_pairs_count,
                             invalid_date_pairs_count |-> invalid_date_pairs_count,
                             order_satisfied_count |-> order_satisfied_count,
                             order_violated_count |-> order_violated_count]])

----------------------------------------------------------------------------
(* checks.py: check_validity_regex *)

RegexMessage(df, applicable_rows_count, matched_count, non_matched_count) ==
    IF applicable_rows_count = 0 /\ NRows(df) > 0
    THEN W(<<"Column", "contains", "only", "null", "values", "or", "is", "empty.",
             "No", "applicable", "string", "data", "to", "check", "against",
             "pattern.">>)
    ELSE IF applicable_rows_count = 0 /\ NRows(df) = 0
    THEN W(<<"No", "data", "to", "assess.">>)
    ELSE <<IntV(matched_count)>> \o W(<<"out", "of">>)
            \o <<IntV(applicable_rows_count)>>
            \o W(<<"applicable", "string", "values", "matched", "the", "pattern.">>)
            \o (IF non_matched_count > 0
                THEN <<IntV(non_matched_count)>> \o W(<<"did", "not", "match.">>)
                ELSE <<>>)

(* a faulty variant: a column without a match fails, an empty one included *)
check_validity_regex_FailsWithoutMatch(df, column_name, pattern) ==
    IF ~Hashable(column_name) THEN Raise("TypeError")
    ELSE IF ~HasColumn(df, column_name) THEN
        Ok([rule_type |-> StrV("validity_regex_match_check"),
            column |-> column_name,
            pattern |-> pattern,
            status |-> "error",
            message |-> ColumnNotFoundMsg(column_name),
            details |-> None])
    ELSE IF re_compile(pattern).exc = "re.error" THEN
        Ok([rule_type |-> StrV("validity_regex_match_check"),
            column |-> column_name,
            pattern |-> pattern,
            status |-> "error",
            message |-> W(<<"Invalid", "regular", "expression", "pattern:",
                            "unterminated", "character", "set">>),
            details |-> [regex_compile_error |->
                            W(<<"unterminated", "character", "set">>)]])
    ELSE IF re_compile(pattern).exc # "none" THEN Raise(re_compile(pattern).exc)
    ELSE
        LET col == Column(df, column_name)
            compiled_regex == re_compile(pattern).rec
            original_non_null_mask == [j \in 1..Len(col) |-> ~IsNull(col[j])]
            applicable_rows_count == CountTrue(original_non_null_mask)
            matched_count ==
                CountTrue([j \in 1..Len(col) |->
                    /\ original_non_null_mask[j]
                    /\ re_match(compiled_regex, astype_str(col[j]))])
            non_matched_count == applicable_rows_count - matched_count
        IN  Ok([rule_type |-> StrV("validity_regex_match_check"),
                column |-> column_name,
                pattern |-> pattern,
                status |-> IF non_matched_count > 0 \/ matched_count = 0
                           THEN "failed" ELSE "passed",
                message |-> RegexMessage(df, applicable_rows_count, matched_count,
                                         non_matched_count),
                details |-> [total_rows |-> NRows(df),
                             applicable_rows_count |-> applicable_rows_count,
                             matched_count |-> matched_count,
                             non_matched_count |-> non_matched_count]])

check_validity_regex(df, column_name, pattern) ==
    IF ~Hashable(column_name) THEN Raise("TypeError")
    ELSE IF ~HasColumn(df, column_name) THEN
        Ok([rule_type |-> StrV("validity_regex_match_check"),
            column |-> column_name,
            pattern |-> pattern,
            status |-> "error",
            message |-> ColumnNotFoundMsg(column_name),
            details |-> None])
    ELSE IF re_compile(pattern).exc = "re.error" THEN
        Ok([rule_type |-> StrV("validity_regex_match_check"),
            column |-> column_name,
            pattern |-> pattern,
            status |-> "error",
            message |-> W(<<"Invalid", "regular", "expression", "pattern:",
                            "unterminated", "character", "set">>),
            details |-> [regex_compile_error |->
                            W(<<"unterminated", "character", "set">>)]])
    ELSE IF re_compile(pattern).exc # "none" THEN Raise(re_compile(pattern).exc)
    ELSE
        LET col == Column(df, column_name)
            compiled_regex == re_compile(pattern).rec
            original_non_null_mask == [j \in 1..Len(col) |-> ~IsNull(col[j])]
            applicable_rows_count == CountTrue(original_non_null_mask)
            matched_count ==
                CountTrue([j \in 1..Len(col) |->
                    /\ original_non_null_mask[j]
                    /\ re_match(compiled_regex, astype_str(col[j]))])
            non_matched_count == applicable_rows_count - matched_count
        IN  Ok([rule_type |-> StrV("validity_regex_match_check"),
                column |-> column_name,
                pattern |-> pattern,
                status |-> IF non_matched_count > 0 THEN "failed" ELSE "passed",
                message |-> RegexMessage(df, applicable_rows_count, matched_count,
                                         non_matched_count),
                details |-> [total_rows |-> NRows(df),
                             applicable_rows_count |-> applicable_rows_count,
                             matched_count |-> matched_count,
                             non_matched_count |-> non_matched_count]])

----------------------------------------------------------------------------
(* checks.py: check_timeliness_fixed_range *)

TimelinessMessage(df, start_date, end_date, parseable_column_dates_count, unparseable_column_dates_count, out_of_range_count) ==
    LET passed == out_of_range_count = 0 /\ unparseable_column_dates_count = 0
        message_parts ==
            (IF out_of_range_count > 0
             THEN <<IntV(out_of_range_count)>>
                    \o W(<<"parseable", "dates", "were", "out", "of", "the",
                           "specified", "range", "[">>)
                    \o <<DateV(start_date)>> \o W(<<"-">>) \o <<DateV(end_date)>>
                    \o W(<<"].">>)
             ELSE <<>>)
            \o (IF unparseable_column_dates_count > 0
                THEN <<IntV(unparseable_column_dates_count)>>
                        \o W(<<"values", "in", "the", "column", "could", "not",
                               "be", "parsed", "as", "dates.">>)
                ELSE <<>>)
            \o (IF passed /\ parseable_column_dates_count > 0
                THEN W(<<"All">>) \o <<IntV(parseable_column_dates_count)>>
                        \o W(<<"parseable", "dates", "are", "within", "the",
                               "specified", "range.">>)
                ELSE IF passed /\ parseable_column_dates_count = 0
                            /\ unparseable_column_dates_count = 0
                THEN W(<<"No", "parseable", "dates", "found", "in", "the",
                         "column", "to", "check", "against", "the", "range.">>)
                ELSE <<>>)
    IN  IF message_parts = <<>>
        THEN IF NRows(df) = 0 THEN W(<<"No", "data", "to", "assess.">>)
             ELSE IF parseable_column_dates_count = 0
                        /\ unparseable_column_dates_count = 0
             THEN W(<<"Column", "contains", "only", "null", "values", "or", "is",
                      "empty.", "No", "dates", "to", "check.">>)
             ELSE W(<<"Assessment", "complete.">>)
        ELSE message_parts

(* a faulty variant: the error record is built without its details *)
TimelinessError_NoDetails(column_name, start_date_str, end_date_str, message) ==
    Ok([rule_type |-> StrV("timeliness_fixed_range_check"),
        column |-> column_name,
        start_date |-> start_date_str,
        end_date |-> end_date_str,
        status |-> "error",
        message |-> message])

TimelinessError(column_name, start_date_str, end_date_str, message) ==
    Ok([rule_type |-> StrV("timeliness_fixed_range_check"),
        column |-> column_name,
        start_date |-> start_date_str,
        end_date |-> end_date_str,
        status |-> "error",
        message |-> message,
        details |-> None])

(* a faulty variant: a cell that fails to parse does not fail the check *)
check_timeliness_fixed_range_IgnoresUnparseable(df, column_name, start_date_str, end_date_str) ==
    IF ~Hashable(column_name) THEN Raise("TypeError")
    ELSE IF ~HasColumn(df, column_name) THEN
        TimelinessError(column_name, start_date_str, end_date_str,
                        ColumnNotFoundMsg(column_name))
    ELSE IF "ValueError" \in {to_datetime_scalar(start_date_str).exc,
                              to_datetime_scalar(end_date_str).exc} THEN
        IF to_datetime_scalar(start_date_str).exc = "TypeError"
        THEN Raise("TypeError")
        ELSE TimelinessError(column_name, start_date_str, end_date_str,
                W(<<"Invalid", "start_date", "or", "end_date", "parameter",
                    "format.", "Dates", "must", "be", "parseable.">>))
    ELSE IF "TypeError" \in {to_datetime_scalar(start_date_str).exc,
                             to_datetime_scalar(end_date_str).exc} THEN
        Raise("TypeError")
    ELSE IF TsGt(to_datetime_scalar(start_date_str).rec,
                 to_datetime_scalar(end_date_str).rec) THEN
        TimelinessError(column_name, start_date_str, end_date_str,
                W(<<"Start", "date", "cannot", "be", "after", "end", "date.">>))
    ELSE
        LET col == Column(df, column_name)
            start_date == to_datetime_scalar(start_date_str).rec
            end_date == to_datetime_scalar(end_date_str).rec
            column_dates == [j \in 1..Len(col) |-> to_datetime(col[j])]
            parseable_column_dates_count ==
                CountTrue([j \in 1..Len(col) |-> ~column_dates[j].nat])
            unparseable_column_dates_count ==
                CountTrue([j \in 1..Len(col) |-> ~IsNull(col[j])])
                    - parseable_column_dates_count
            in_range_count ==
                IF parseable_column_dates_count > 0
                THEN CountTrue([j \in 1..Len(col) |->
                        /\ TsLe(start_date, column_dates[j])
                        /\ TsLe(column_dates[j], end_date)])
                ELSE 0
            out_of_range_count ==
                IF parseable_column_dates_count > 0
                THEN parseable_column_dates_count - in_range_count
                ELSE 0
        IN  Ok([rule_type |-> StrV("timeliness_fixed_range_check"),
                column |-> column_name,
                start_date |-> start_date_str,
                end_date |-> end_date_str,
                status |-> IF out_of_range_count > 0
                           THEN "failed" ELSE "passed",
                message |-> TimelinessMessage(df, start_date, end_date,
                                parseable_column_dates_count,
                                unparseable_column_dates_count,
                                out_of_range_count),
                details |-> [total_rows |-> NRows(df),
                             parseable_column_dates_count |->
                                parseable_column_dates_count,
                             unparseable_column_dates_count |->
                                unparseable_column_dates_count,
                             in_range_count |-> in_range_count,
                             out_of_range_count |-> out_of_range_count]])

(* a faulty variant: every row not in range counts as out of range *)
check_timeliness_fixed_range_NullsOutOfRange(df, column_name, start_date_str, end_date_str) ==
    IF ~Hashable(column_name) THEN Raise("TypeError")
    ELSE IF ~HasColumn(df, column_name) THEN
        TimelinessError(column_name, start_date_str, end_date_str,
                        ColumnNotFoundMsg(column_name))
    ELSE IF "ValueError" \in {to_datetime_scalar(start_date_str).exc,
                              to_datetime_scalar(end_date_str).exc} THEN
        IF to_datetime_scalar(start_date_str).exc = "TypeError"
        THEN Raise("TypeError")
        ELSE TimelinessError(column_name, start_date_str, end_date_str,
                W(<<"Invalid", "start_date", "or", "end_date", "parameter",
                    "format.", "Dates", "must", "be", "parseable.">>))
    ELSE IF "TypeError" \in {to_datetime_scalar(start_date_str).exc,
                             to_datetime_scalar(end_date_str).exc} THEN
        Raise("TypeError")
    ELSE IF TsGt(to_datetime_scalar(start_date_str).rec,
                 to_datetime_scalar(end_date_str).rec) THEN
        TimelinessError(column_name, start_date_str, end_date_str,
                W(<<"Start", "date", "cannot", "be", "after", "end", "date.">>))
    ELSE
        LET col == Column(df, column_name)
            start_date == to_datetime_scalar(start_date_str).rec
            end_date == to_datetime_scalar(end_date_str).rec
            column_dates == [j \in 1..Len(col) |-> to_datetime(col[j])]
            parseable_column_dates_count ==
                CountTrue([j \in 1..Len(col) |-> ~column_dates[j].nat])
            unparseable_column_dates_count ==
                CountTrue([j \in 1..Len(col) |-> ~IsNull(col[j])])
                    - parseable_column_dates_count
            in_range_count ==
                IF parseable_column_dates_count > 0
                THEN CountTrue([j \in 1..Len(col) |->
                        /\ TsLe(start_date, column_dates[j])
                        /\ TsLe(column_dates[j], end_date)])
                ELSE 0
            out_of_range_count ==
                IF parseable_column_dates_count > 0
                THEN NRows(df) - in_range_count
                ELSE 0
        IN  Ok([rule_type |-> StrV("timeliness_fixed_range_check"),
                column |-> column_name,
                start_date |-> start_date_str,
                end_date |-> end_date_str,
                status |-> IF out_of_range_count > 0
                                \/ unparseable_column_dates_count > 0
                           THEN "failed" ELSE "passed",
                message |-> TimelinessMessage(df, start_date, end_date,
                                parseable_column_dates_count,
                                unparseable_column_dates_count,
                                out_of_range_count),
                details |-> [total_rows |-> NRows(df),
                             parseable_column_dates_count |->
                                parseable_column_dates_count,
                             unparseable_column_dates_count |->
                                unparseable_column_dates_count,
                             in_range_count |-> in_range_count,
                             out_of_range_count |-> out_of_range_count]])

check_timeliness_fixed_range(df, column_name, start_date_str, end_date_str) ==
    IF ~Hashable(column_name) THEN Raise("TypeError")
    ELSE IF ~HasColumn(df, column_name) THEN
        TimelinessError(column_name, start_date_str, end_date_str,
                        ColumnNotFoundMsg(column_name))
    ELSE IF "ValueError" \in {to_datetime_scalar(start_date_str).exc,
                              to_datetime_scalar(end_date_str).exc} THEN
        IF to_datetime_scalar(start_date_str).exc = "TypeError"
        THEN Raise("TypeError")
        ELSE TimelinessError(column_name, start_date_str, end_date_str,
                W(<<"Invalid", "start_date", "or", "end_date", "parameter",
                    "format.", "Dates", "must", "be", "parseable.">>))
    ELSE IF "TypeError" \in {to_datetime_scalar(start_date_str).exc,
                             to_datetime_scalar(end_date_str).exc} THEN
        Raise("TypeError")
    ELSE IF TsGt(to_datetime_scalar(start_date_str).rec,
                 to_datetime_scalar(end_date_str).rec) THEN
        TimelinessError(column_name, start_date_str, end_date_str,
                W(<<"Start", "date", "cannot", "be", "after", "end", "date.">>))
    ELSE
        LET col == Column(df, column_name)
            start_date == to_datetime_scalar(start_date_str).rec
            end_date == to_datetime_scalar(end_date_str).rec
            column_dates == [j \in 1..Len(col) |-> to_datetime(col[j])]
            parseable_column_dates_count ==
                CountTrue([j \in 1..Len(col) |-> ~column_dates[j].nat])
            unparseable_column_dates_count ==
                CountTrue([j \in 1..Len(col) |-> ~IsNull(col[j])])
                    - parseable_column_dates_count
            in_range_count ==
                IF parseable_column_dates_count > 0
                THEN CountTrue([j \in 1..Len(col) |->
                        /\ TsLe(start_date, column_dates[j])
                        /\ TsLe(column_dates[j], end_date)])
                ELSE 0
            out_of_range_count ==
                IF parseable_column_dates_count > 0
                THEN parseable_column_dates_count - in_range_count
                ELSE 0
        IN  Ok([rule_type |-> StrV("timeliness_fixed_range_check"),
                column |-> column_name,
                start_date |-> start_date_str,
                end_date |-> end_date_str,
                status |-> IF out_of_range_count > 0
                                \/ unparseable_column_dates_count > 0
                           THEN "failed" ELSE "passed",
                message |-> TimelinessMessage(df, start_date, end_date,
                                parseable_column_dates_count,
                                unparseable_column_dates_count,
                                out_of_range_count),
                details |-> [total_rows |-> NRows(df),
                             parseable_column_dates_count |->
                                parseable_column_dates_count,
                             unparseable_column_dates_count |->
                                unparseable_column_dates_count,
                             in_range_count |-> in_range_count,
                             out_of_range_count |-> out_of_range_count]])

----------------------------------------------------------------------------
(* assessment_engine.py: AssessmentEngine *)

(* the keys of self.check_functions *)
check_functions ==
    {"completeness", "uniqueness", "data_type", "accuracy_range_check",
     "consistency_date_order_check", "validity_regex_match_check",
     "timeliness_fixed_range_check"}

(* self.check_functions[name] *)
RegisteredFunction(name) ==
    CASE name = "completeness" -> "check_completeness"
      [] name = "uniqueness" -> "check_uniqueness"
      [] name = "data_type" -> "check_data_type"
      [] name = "accuracy_range_check" -> "check_accuracy_range"
      [] name = "consistency_date_order_check" -> "check_consistency_date_order"
      [] name = "validity_regex_match_check" -> "check_validity_regex"
      [] name = "timeliness_fixed_range_check" -> "check_timeliness_fixed_range"

(* self.check_functions.get(rule_type) found a function *)
Registered(rule_type) == rule_type.k = "str" /\ rule_type.s \in check_functions

(* what one pass of the loop body did: the record it appended (or the    *)
(* exception that left run_checks) and the check function it called, if *)
(* any                                                                   *)
Rejected(rec) == [exc |-> "none", rec |-> rec, fn |-> "none"]
Called(fn, outcome) == [exc |-> outcome.exc, rec |-> outcome.rec, fn |-> fn]
Escaped(e) == [exc |-> e, rec |-> None, fn |-> "none"]

(* faulty variants of the records and messages of the validation steps, *)
(* which the properties of run_checks must tell from the code's         *)
UnsupportedTypeRecord_NoType(rule_type, column_name) ==
    [rule_type |-> None,
     column |-> column_name,
     status |-> "error",
     message |-> W(<<"Unsupported", "rule", "type.">>),
     details |-> None]

MissingColumnRecord_NoType(rule_type) ==
    [rule_type |-> rule_type,
     column |-> None,
     status |-> "error",
     message |-> W(<<"Missing", "'column'", "parameter", "in", "rule",
                     "definition.">>),
     details |-> None]

MissingParams_SecondFirst(first_missing, first_name, second_missing, second_name) ==
    W(<<"Missing">>)
        \o (IF second_missing THEN W(<<second_name>>) ELSE <<>>)
        \o (IF first_missing /\ second_missing THEN W(<<",">>) ELSE <<>>)
        \o (IF first_missing THEN W(<<first_name>>) ELSE <<>>)

CombinedColumn_FirstTwice(column_a_name, column_b_name) ==
    <<Fmt(column_a_name), StrV("&"), Fmt(column_a_name)>>

MissingTypeRecord(column_name) ==
    [rule_type |-> None,
     column |-> column_name,
     status |-> "error",
     message |-> W(<<"Missing", "'type'", "in", "rule", "definition.">>),
     details |-> None]

UnsupportedTypeRecord(rule_type, column_name) ==
    [rule_type |-> rule_type,
     column |-> column_name,
     status |-> "error",
     message |-> W(<<"Unsupported", "rule", "type:", "'">>) \o <<Fmt(rule_type)>>
                    \o W(<<"'.">>),
     details |-> None]

MissingColumnRecord(rule_type) ==
    [rule_type |-> rule_type,
     column |-> None,
     status |-> "error",
     message |-> W(<<"Missing", "'column'", "parameter", "in">>)
                    \o <<Fmt(rule_type)>> \o W(<<"rule", "definition.">>),
     details |-> None]

(* f"... in {rule_type} rule for column '{column_name}'." *)
ForColumn(rule_type, column_name) ==
    W(<<"in">>) \o <<Fmt(rule_type)>> \o W(<<"rule", "for", "column", "'">>)
        \o <<Fmt(column_name)>> \o W(<<"'.">>)

(* "Missing " + ', '.join(missing_params) *)
MissingParams(first_missing, first_name, second_missing, second_name) ==
    W(<<"Missing">>)
        \o (IF first_missing THEN W(<<first_name>>) ELSE <<>>)
        \o (IF first_missing /\ second_missing THEN W(<<",">>) ELSE <<>>)
        \o (IF second_missing THEN W(<<second_name>>) ELSE <<>>)

(* a faulty variant: the check is called without the expected_type test *)
DataTypeRule_NoValidation(df, rule, rule_type, column_name) ==
    Called("check_data_type",
           check_data_type(df, column_name, Get(rule, "expected_type")))

DataTypeRule(df, rule, rule_type, column_name) ==
    LET expected_type == Get(rule, "expected_type")
    IN  IF ~Truthy(expected_type)
        THEN Rejected([rule_type |-> rule_type,
                       column |-> column_name,
                       expected_type |-> None,
                       status |-> "error",
                       message |-> W(<<"Missing", "'expected_type'">>)
                                    \o ForColumn(rule_type, column_name),
                       details |-> None])
        ELSE Called("check_data_type",
                    check_data_type(df, column_name, expected_type))

(* a faulty variant: a bound is present when it is truthy *)
AccuracyRangeRule_ByTruthiness(df, rule, rule_type, column_name) ==
    LET min_value == Get(rule, "min_value")
        max_value == Get(rule, "max_value")
    IN  IF ~Truthy(min_value) \/ ~Truthy(max_value)
        THEN Rejected([rule_type |-> rule_type,
                       column |-> column_name,
                       min_value |-> min_value,
                       max_value |-> max_value,
                       status |-> "error",
                       message |-> MissingParams(~Truthy(min_value), "'min_value'",
                                                 ~Truthy(max_value), "'max_value'")
                                    \o ForColumn(rule_type, column_name),
                       details |-> None])
        ELSE IF PyFloat(min_value).exc = "TypeError" THEN Escaped("TypeError")
        ELSE IF PyFloat(min_value).exc = "none" /\ PyFloat(max_value).exc = "TypeError"
        THEN Escaped("TypeError")
        ELSE IF PyFloat(min_value).exc = "ValueError"
                    \/ PyFloat(max_value).exc = "ValueError"
        THEN Rejected([rule_type |-> rule_type,
                       column |-> column_name,
                       min_value |-> Get(rule, "min_value"),
                       max_value |-> Get(rule, "max_value"),
                       status |-> "error",
                       message |-> W(<<"'min_value'", "and", "'max_value'", "must",
                                       "be", "numbers", "for">>)
                                    \o <<Fmt(rule_type)>>
                                    \o W(<<"rule", "on", "column", "'">>)
                                    \o <<Fmt(column_name)>> \o W(<<"'.">>),
                       details |-> None])
        ELSE Called("check_accuracy_range",
                    check_accuracy_range(df, column_name, PyFloat(min_value).rec,
                                         PyFloat(max_value).rec))

AccuracyRangeRule(df, rule, rule_type, column_name) ==
    LET min_value == Get(rule, "min_value")
        max_value == Get(rule, "max_value")
    IN  IF min_value.k = "none" \/ max_value.k = "none"
        THEN Rejected([rule_type |-> rule_type,
                       column |-> column_name,
                       min_value |-> min_value,
                       max_value |-> max_value,
                       status |-> "error",
                       message |-> MissingParams(min_value.k = "none", "'min_value'",
                                                 max_value.k = "none", "'max_value'")
                                    \o ForColumn(rule_type, column_name),
                       details |-> None])
        ELSE IF PyFloat(min_value).exc = "TypeError" THEN Escaped("TypeError")
        ELSE IF PyFloat(min_value).exc = "none" /\ PyFloat(max_value).exc = "TypeError"
        THEN Escaped("TypeError")
        ELSE IF PyFloat(min_value).exc = "ValueError"
                    \/ PyFloat(max_value).exc = "ValueError"
        THEN Rejected([rule_type |-> rule_type,
                       column |-> column_name,
                       min_value |-> Get(rule, "min_value"),
                       max_value |-> Get(rule, "max_value"),
                       status |-> "error",
                       message |-> W(<<"'min_value'", "and", "'max_value'", "must",
                                       "be", "numbers", "for">>)
                                    \o <<Fmt(rule_type)>>
                                    \o W(<<"rule", "on", "column", "'">>)
                                    \o <<Fmt(column_name)>> \o W(<<"'.">>),
                       details |-> None])
        ELSE Called("check_accuracy_range",
                    check_accuracy_range(df, column_name, PyFloat(min_value).rec,
                                         PyFloat(max_value).rec))

(* {**raw_result, 'column': ...} *)
WithColumn(raw_result, column) ==
    [f \in DOMAIN raw_result \cup {"column"} |->
        IF f = "column" THEN column ELSE raw_result[f]]

(* f"{column_a_name} & {column_b_name}" *)
CombinedColumn(column_a_name, column_b_name) ==
    <<Fmt(column_a_name), StrV("&"), Fmt(column_b_name)>>

DateOrderRule(df, rule, rule_type) ==
    LET column_a_name == Get(rule, "column_a")
        column_b_name == Get(rule, "column_b")
        raw == check_consistency_date_order(df, column_a_name, column_b_name)
    IN  IF ~Truthy(column_a_name) \/ ~Truthy(column_b_name)
        THEN Rejected([rule_type |-> rule_type,
                       column_a |-> column_a_name,
                       column_b |-> column_b_name,
                       status |-> "error",
                       message |-> MissingParams(~Truthy(column_a_name), "'column_a'",
                                                 ~Truthy(column_b_name), "'column_b'")
                                    \o W(<<"in">>) \o <<Fmt(rule_type)>>
                                    \o W(<<"rule.">>),
                       details |-> None])
        ELSE IF raw.exc # "none"
        THEN Called("check_consistency_date_order", raw)
        ELSE Called("check_consistency_date_order",
                    Ok(WithColumn(raw.rec,
                                  CombinedColumn(column_a_name, column_b_name))))

RegexRule(df, rule, rule_type, column_name) ==
    LET pattern == Get(rule, "pattern")
    IN  IF ~Truthy(pattern)
        THEN Rejected([rule_type |-> rule_type,
                       column |-> column_name,
                       pattern |-> None,
                       status |-> "error",
                       message |-> W(<<"Missing", "'pattern'">>)
                                    \o ForColumn(rule_type, column_name),
                       details |-> None])
        ELSE Called("check_validity_regex",
                    check_validity_regex(df, column_name, pattern))

TimelinessRule(df, rule, rule_type, column_name) ==
    LET start_date_str == Get(rule, "start_date")
        end_date_str == Get(rule, "end_date")
    IN  IF ~Truthy(start_date_str) \/ ~Truthy(end_date_str)
        THEN Rejected([rule_type |-> rule_type,
                       column |-> column_name,
                       start_date |-> start_date_str,
                       end_date |-> end_date_str,
                       status |-> "error",
                       message |-> MissingParams(~Truthy(start_date_str), "'start_date'",
                                                 ~Truthy(end_date_str), "'end_date'")
                                    \o ForColumn(rule_type, column_name),
                       details |-> None])
        ELSE Called("check_timeliness_fixed_range",
                    check_timeliness_fixed_range(df, column_name, start_date_str,
                                                 end_date_str))

(* a faulty variant: 'if rule_type == ""' *)
TypeIsMissing_EmptyOnly(rule_type) == rule_type.k = "str" /\ rule_type.s = ""

(* 'if not rule_type' *)
TypeIsMissing(rule_type) == ~Truthy(rule_type)

(* a faulty variant: the column step comes before the registry lookup *)
RunRule_ColumnStepFirst(df, rule) ==
    LET rule_type == Get(rule, "type")
        column_name == Get(rule, "column")
    IN  IF ~Hashable(rule_type) THEN Escaped("TypeError")
        ELSE IF TypeIsMissing(rule_type) THEN Rejected(MissingTypeRecord(column_name))
        ELSE IF rule_type.s # "consistency_date_order_check" /\ ~Truthy(column_name)
        THEN Rejected(MissingColumnRecord(rule_type))
        ELSE IF ~Registered(rule_type)
        THEN Rejected(UnsupportedTypeRecord(rule_type, column_name))
        ELSE CASE rule_type.s = "data_type" ->
                    DataTypeRule(df, rule, rule_type, column_name)
               [] rule_type.s = "accuracy_range_check" ->
                    AccuracyRangeRule(df, rule, rule_type, column_name)
               [] rule_type.s = "consistency_date_order_check" ->
                    DateOrderRule(df, rule, rule_type)
               [] rule_type.s = "validity_regex_match_check" ->
                    RegexRule(df, rule, rule_type, column_name)
               [] rule_type.s = "timeliness_fixed_range_check" ->
                    TimelinessRule(df, rule, rule_type, column_name)
               [] rule_type.s = "completeness" ->
                    Called("check_completeness", check_completeness(df, column_name))
               [] rule_type.s = "uniqueness" ->
                    Called("check_uniqueness", check_uniqueness(df, column_name))

(* the body of the loop of run_checks, for one rule *)
RunRule(df, rule) ==
    LET rule_type == Get(rule, "type")
        column_name == Get(rule, "column")
    IN  IF ~Hashable(rule_type) THEN Escaped("TypeError")
        ELSE IF TypeIsMissing(rule_type) THEN Rejected(MissingTypeRecord(column_name))
        ELSE IF ~Registered(rule_type)
        THEN Rejected(UnsupportedTypeRecord(rule_type, column_name))
        ELSE IF rule_type.s # "consistency_date_order_check" /\ ~Truthy(column_name)
        THEN Rejected(MissingColumnRecord(rule_type))
        ELSE CASE rule_type.s = "data_type" ->
                    DataTypeRule(df, rule, rule_type, column_name)
               [] rule_type.s = "accuracy_range_check" ->
                    AccuracyRangeRule(df, rule, rule_type, column_name)
               [] rule_type.s = "consistency_date_order_check" ->
                    DateOrderRule(df, rule, rule_type)
               [] rule_type.s = "validity_regex_match_check" ->
                    RegexRule(df, rule, rule_type, column_name)
               [] rule_type.s = "timeliness_fixed_range_check" ->
                    TimelinessRule(df, rule, rule_type, column_name)
               [] rule_type.s = "completeness" ->
                    Called("check_completeness", check_completeness(df, column_name))
               [] rule_type.s = "uniqueness" ->
                    Called("check_uniqueness", check_uniqueness(df, column_name))

----------------------------------------------------------------------------
(* The inputs: datasets and rule mappings *)

MaxRules == 2

SampleDF ==
    [columns |-> <<"id", "name", "age", "score", "start_date", "end_date">>,
     nrows |-> 4,
     dtype |-> [id |-> "float64", name |-> "object", age |-> "int64",
                score |-> "object", start_date |-> "object",
                end_date |-> "object"],
     cells |-> [id |-> <<FloatV(1), FloatV(2), FloatV(2), None>>,
                name |-> <<StrV("Alice"), StrV("Bob"), StrV("Bob"), StrV("Carol")>>,
                age |-> <<IntV(30), IntV(24), IntV(24), IntV(40)>>,
                score |-> <<StrV("20"), StrV("abc"), None, StrV("40")>>,
                start_date |-> <<StrV("2023-01-01"), StrV("2023-03-01"), None,
                                 StrV("bad date")>>,
                end_date |-> <<StrV("2023-01-15"), StrV("2023-02-01"),
                               StrV("2023-02-01"), StrV("2023-02-01")>>]]

CleanDF ==
    [columns |-> <<"id", "name", "age", "score", "start_date", "end_date">>,
     nrows |-> 3,
     dtype |-> [id |-> "int64", name |-> "object", age |-> "int64",
                score |-> "object", start_date |-> "object",
                end_date |-> "object"],
     cells |-> [id |-> <<IntV(1), IntV(2), IntV(3)>>,
                name |-> <<StrV("Alice"), StrV("Bob"), StrV("Carol")>>,
                age |-> <<IntV(30), IntV(24), IntV(40)>>,
                score |-> <<StrV("20"), StrV("30"), StrV("40")>>,
                start_date |-> <<StrV("2023-01-01"), StrV("2023-02-01"),
                                 StrV("2023-03-01")>>,
                end_date |-> <<StrV("2023-01-15"), StrV("2023-03-01"),
                               StrV("2023-03-01")>>]]

EmptyDF ==
    [columns |-> <<"id", "name", "age", "score", "start_date", "end_date">>,
     nrows |-> 0,
     dtype |-> [id |-> "object", name |-> "object", age |-> "object",
                score |-> "object", start_date |-> "object",
                end_date |-> "object"],
     cells |-> [id |-> <<>>, name |-> <<>>, age |-> <<>>, score |-> <<>>,
                start_date |-> <<>>, end_date |-> <<>>]]

Datasets == {SampleDF, CleanDF, EmptyDF}

Keys ==
    {"type", "column", "expected_type", "min_value", "max_value", "column_a",
     "column_b", "pattern", "start_date", "end_date"}

(* the rule mapping holding the given keys *)
Rule(given) == [key \in Keys |-> IF key \in DOMAIN given THEN given[key] ELSE Absent]

NoColumn == StrV("no_such_column")

SingleColumnRules ==
    {Rule([type |-> t, column |-> c]) :
        t \in {Absent, None, StrV(""), ListV(1), StrV("non_existent_rule"),
               StrV("completeness"), StrV("uniqueness")},
        c \in {Absent, None, StrV(""), ListV(1), StrV("id"), StrV("name"),
               StrV("age"), NoColumn}}

DataTypeRules ==
    {Rule([type |-> StrV("data_type"), column |-> c, expected_type |-> e]) :
        c \in {Absent, StrV(""), StrV("id"), StrV("age"), NoColumn},
        e \in {Absent, None, StrV(""), StrV("int64"), StrV("float64"),
               StrV("Int64")}}

BoundValues ==
    {Absent, None, IntV(0), IntV(20), StrV("20"), IntV(40), StrV("40"),
     StrV("abc"), ListV(1)}

AccuracyRangeRules ==
    {Rule([type |-> StrV("accuracy_range_check"), column |-> c,
           min_value |-> lo, max_value |-> hi]) :
        c \in {Absent, StrV("age"), StrV("score"), NoColumn},
        lo \in BoundValues, hi \in BoundValues}

DateColumnValues ==
    {Absent, None, StrV(""), StrV("start_date"), StrV("end_date"), NoColumn,
     StrV("other_column")}

DateOrderRules ==
    {Rule([type |-> StrV("consistency_date_order_check"), column |-> c,
           column_a |-> a, column_b |-> b]) :
        c \in {Absent, StrV("age")}, a \in DateColumnValues, b \in DateColumnValues}

RegexRules ==
    {Rule([type |-> StrV("validity_regex_match_check"), column |-> c,
           pattern |-> p]) :
        c \in {Absent, StrV("name"), StrV("age"), NoColumn},
        p \in {Absent, None, StrV(""), StrV("^A"), StrV("^[A-Z][a-z]*$"),
               StrV("2"), StrV("["), IntV(5), ListV(1)}}

DateValues ==
    {Absent, None, StrV(""), StrV("2023-01-01"), StrV("2023-02-01"),
     StrV("2023-12-31"), StrV("not a date")}

TimelinessRules ==
    {Rule([type |-> StrV("timeliness_fixed_range_check"), column |-> c,
           start_date |-> s, end_date |-> e]) :
        c \in {Absent, StrV(""), StrV("start_date"), NoColumn},
        s \in DateValues, e \in DateValues}

TypedRules ==
    DataTypeRules \cup AccuracyRangeRules \cup DateOrderRules \cup RegexRules
        \cup TimelinessRules

(* the same mappings without a usable type *)
UntypedRules ==
    {[r EXCEPT !["type"] = t] :
        r \in DataTypeRules \cup RegexRules,
        t \in {Absent, None, StrV("non_existent_rule"), StrV("Completeness")}}

AllRules == SingleColumnRules \cup TypedRules \cup UntypedRules

(* the rules that rule lists of several rules are made of *)
SeqRules ==
    {Rule([type |-> StrV("completeness"), column |-> StrV("id")]),
     Rule([type |-> StrV("uniqueness"), column |-> StrV("age")]),
     Rule([type |-> StrV("data_type"), column |-> StrV("name"),
           expected_type |-> StrV("object")]),
     Rule([type |-> StrV("accuracy_range_check"), column |-> StrV("age"),
           min_value |-> IntV(20), max_value |-> StrV("40")]),
     Rule([type |-> StrV("accuracy_range_check"), column |-> StrV("age"),
           min_value |-> ListV(1), max_value |-> IntV(40)]),
     Rule([type |-> StrV("consistency_date_order_check"),
           column_a |-> StrV("start_date"), column_b |-> StrV("end_date")]),
     Rule([type |-> StrV("validity_regex_match_check"), column |-> StrV("name"),
           pattern |-> StrV("^A")]),
     Rule([type |-> StrV("timeliness_fixed_range_check"),
           column |-> StrV("start_date"), start_date |-> StrV("2023-01-01"),
           end_date |-> StrV("2023-12-31")]),
     Rule([column |-> StrV("id")]),
     Rule([type |-> StrV("non_existent_rule"), column |-> StrV("id")]),
     Rule([type |-> StrV("completeness")])}

SeqsUpTo(S, m) == UNION {[1..len -> S] : len \in 0..m}

RuleLists == {<<r>> : r \in AllRules} \cup SeqsUpTo(SeqRules, MaxRules)

----------------------------------------------------------------------------
(* The state machine: an engine built on a dataset, and calls of run_checks *)

(* AssessmentEngine(dataframe) *)
Init ==
    /\ dataframe \in Datasets
    /\ rules = <<>>
    /\ results = <<>>
    /\ calls = <<>>
    /\ pc = "idle"

(* run_checks(rules) is called: results = [] *)
RunChecks(rs) ==
    /\ pc = "idle"
    /\ rules' = rs
    /\ results' = <<>>
    /\ calls' = <<>>
    /\ pc' = "loop"
    /\ UNCHANGED dataframe

(* a faulty variant: the pass takes 'type' out of the rule mapping *)
Iterate_PopsType ==
    /\ pc = "loop"
    /\ Len(results) < Len(rules)
    /\ LET idx == Len(results) + 1
           out == RunRule(dataframe, rules[idx])
       IN  /\ calls' = IF out.fn = "none" THEN calls
                       ELSE Append(calls, [fn |-> out.fn, rule |-> idx])
           /\ IF out.exc = "none"
              THEN /\ results' = Append(results, out.rec)
                   /\ pc' = "loop"
              ELSE /\ results' = results
                   /\ pc' = "raised"
           /\ rules' = [rules EXCEPT ![idx] = [@ EXCEPT !["type"] = Absent]]
    /\ UNCHANGED dataframe

(* one pass of the loop body, for the next rule of the list: it appends a *)
(* record, or an exception leaves run_checks                              *)
Iterate ==
    /\ pc = "loop"
    /\ Len(results) < Len(rules)
    /\ LET idx == Len(results) + 1
           out == RunRule(dataframe, rules[idx])
       IN  /\ calls' = IF out.fn = "none" THEN calls
                       ELSE Append(calls, [fn |-> out.fn, rule |-> idx])
           /\ IF out.exc = "none"
              THEN /\ results' = Append(results, out.rec)
                   /\ pc' = "loop"
              ELSE /\ results' = results
                   /\ pc' = "raised"
    /\ UNCHANGED <<dataframe, rules>>

(* return results *)
Return ==
    /\ pc = "loop"
    /\ Len(results) = Len(rules)
    /\ pc' = "returned"
    /\ UNCHANGED <<dataframe, rules, results, calls>>

(* the caller has the list, or the exception; the engine, which keeps *)
(* nothing of the call, can be called again                          *)
Finish ==
    /\ pc \in {"returned", "raised"}
    /\ rules' = <<>>
    /\ results' = <<>>
    /\ calls' = <<>>
    /\ pc' = "idle"
    /\ UNCHANGED dataframe

Next ==
    \/ \E rs \in RuleLists : RunChecks(rs)
    \/ Iterate
    \/ Return
    \/ Finish

Spec == Init /\ [][Next]_vars

----------------------------------------------------------------------------
(* The check library called directly, as the tests of checks.py call it: *)
(* a dataset built from lists of cells, one call of one check function   *)

MaxRows == 3
MaxPairs == 2

(* the dtype pd.DataFrame gives a column built from a list of cells *)
DTypeOf(cells) ==
    IF \E j \in 1..Len(cells) : cells[j].k = "str" THEN "object"
    ELSE IF \A j \in 1..Len(cells) : cells[j].k = "none" THEN "object"
    ELSE IF \A j \in 1..Len(cells) : cells[j].k = "int" THEN "int64"
    ELSE "float64"

(* the cells of the column: in a float64 column every number is a float *)
AsColumn(cells) ==
    [j \in 1..Len(cells) |->
        IF DTypeOf(cells) = "float64" /\ cells[j].k = "int"
        THEN FloatV(cells[j].n) ELSE cells[j]]

(* pd.DataFrame({name: cells}) *)
DataFrame1(name, cells) ==
    [columns |-> <<name>>,
     nrows |-> Len(cells),
     dtype |-> (name :> DTypeOf(cells)),
     cells |-> (name :> AsColumn(cells))]

(* pd.DataFrame({"a": [...], "b": [...]}), given row by row *)
DataFrame2(pairs) ==
    LET cells_a == [j \in 1..Len(pairs) |-> pairs[j][1]]
        cells_b == [j \in 1..Len(pairs) |-> pairs[j][2]]
    IN  [columns |-> <<"a", "b">>,
         nrows |-> Len(pairs),
         dtype |-> ("a" :> DTypeOf(cells_a) @@ "b" :> DTypeOf(cells_b)),
         cells |-> ("a" :> AsColumn(cells_a) @@ "b" :> AsColumn(cells_b))]

ValueCells == {None, IntV(20), IntV(40), StrV("30"), StrV("abc")}

TextCells == {None, StrV("A"), StrV("Alice"), StrV("BA")}

DateCellPairs ==
    {None, StrV("2023-01-01"), StrV("2023-02-01"), StrV("bad date")}
        \X {None, StrV("2023-01-01"), StrV("bad date")}

Frames ==
    {DataFrame1("v", cells) : cells \in SeqsUpTo(ValueCells, MaxRows)}
        \cup {DataFrame1("t", cells) : cells \in SeqsUpTo(TextCells, MaxRows)}
        \cup {DataFrame2(pairs) : pairs \in SeqsUpTo(DateCellPairs, MaxPairs)}

(* the arguments of the calls *)
ColumnArgs == {StrV("v"), StrV("t"), StrV("a"), NoColumn}

TypeArgs == {StrV("int64"), StrV("float64"), StrV("object"), StrV("Int64")}

BoundArgs == {FloatV(20), FloatV(30), FloatV(40)}

PairArgs == {StrV("a"), StrV("b"), NoColumn}

PatternArgs == {StrV(""), StrV("A"), StrV("A$"), StrV("[")}

DateArgs == {StrV("2023-01-01"), StrV("2023-02-01"), StrV("NaT"), StrV("not a date")}

ChecksInit ==
    /\ dataframe \in Frames
    /\ rules = <<>>
    /\ results = <<>>
    /\ calls = <<>>
    /\ pc = "idle"

(* one call of a check function: the caller gets its record, or its *)
(* exception                                                        *)
CallCheck(fn, args, outcome) ==
    /\ pc = "idle"
    /\ calls' = <<[fn |-> fn, rule |-> 0, args |-> args]>>
    /\ IF outcome.exc = "none"
       THEN /\ results' = <<outcome.rec>>
            /\ pc' = "returned"
       ELSE /\ results' = <<>>
            /\ pc' = "raised"
    /\ UNCHANGED <<dataframe, rules>>

Completeness(c) ==
    CallCheck("check_completeness", <<c>>, check_completeness(dataframe, c))

Uniqueness(c) ==
    CallCheck("check_uniqueness", <<c>>, check_uniqueness(dataframe, c))

DataType(c, expected_type) ==
    CallCheck("check_data_type", <<c, expected_type>>,
              check_data_type(dataframe, c, expected_type))

AccuracyRange(c, min_value, max_value) ==
    CallCheck("check_accuracy_range", <<c, min_value, max_value>>,
              check_accuracy_range(dataframe, c, min_value, max_value))

DateOrder(a, b) ==
    CallCheck("check_consistency_date_order", <<a, b>>,
              check_consistency_date_order(dataframe, a, b))

ValidityRegex(c, pattern) ==
    CallCheck("check_validity_regex", <<c, pattern>>,
              check_validity_regex(dataframe, c, pattern))

Timeliness(c, start_date_str, end_date_str) ==
    CallCheck("check_timeliness_fixed_range", <<c, start_date_str, end_date_str>>,
              check_timeliness_fixed_range(dataframe, c, start_date_str,
                                           end_date_str))

ChecksNext ==
    \/ \E c \in ColumnArgs : Completeness(c)
    \/ \E c \in ColumnArgs : Uniqueness(c)
    \/ \E c \in ColumnArgs, e \in TypeArgs : DataType(c, e)
    \/ \E c \in {StrV("v"), NoColumn}, lo \in BoundArgs, hi \in BoundArgs :
            AccuracyRange(c, lo, hi)
    \/ \E a \in PairArgs, b \in PairArgs : DateOrder(a, b)
    \/ \E c \in {StrV("t"), NoColumn}, p \in PatternArgs : ValidityRegex(c, p)
    \/ \E c \in {StrV("a"), NoColumn}, s \in DateArgs, e \in DateArgs :
            Timeliness(c, s, e)
    \/ Finish

ChecksSpec == ChecksInit /\ [][ChecksNext]_vars

----------------------------------------------------------------------------
(* Properties of run_checks *)

(* the rules the call has dealt with: those with a record, and the one an *)
(* exception left run_checks in                                           *)
Recorded == 1..Len(results)

RaisedAt == IF pc = "raised" THEN {Len(results) + 1} ELSE {}

TypeOf(i) == Get(rules[i], "type")

Param(i, key) == Get(rules[i], key)

IsMissing(i, key) == Param(i, key).k = "none"

HasType(i, name) == TypeOf(i) = StrV(name)

HasWord(message, word) == \E j \in 1..Len(message) : message[j] = StrV(word)

HasValue(message, v) == \E j \in 1..Len(message) : message[j] = Fmt(v)

(* the words occur in the message one after the other *)
HasText(message, ws) ==
    \E j \in 0..(Len(message) - Len(ws)) :
        \A h \in 1..Len(ws) : message[j + h] = ws[h]

CalledFor(i) == \E j \in 1..Len(calls) : calls[j].rule = i

CalledFn(i, fn) ==
    /\ \E j \in 1..Len(calls) : calls[j] = [fn |-> fn, rule |-> i]
    /\ Cardinality({j \in 1..Len(calls) : calls[j].rule = i}) = 1

IsErrorRecord(rec) ==
    /\ rec.status = "error"
    /\ "details" \in DOMAIN rec
    /\ rec.details = None

(* C1: for every dataset and every list of rule mappings run_checks returns *)
(* a list with exactly one record per rule, in the order of the rules: for  *)
(* a rule with a non-empty type, record i's rule_type is rule i's type      *)
C1_OneRecordPerRuleInOrder ==
    pc \in {"returned", "raised"} =>
        /\ pc = "returned"
        /\ Len(results) = Len(rules)
        /\ \A i \in 1..Len(rules) :
                Truthy(TypeOf(i)) => results[i].rule_type = TypeOf(i)

(* C2: no exception leaves run_checks, whatever the kinds of the values of *)
(* a rule's parameters: every rule yields one record and the rules after   *)
(* it are evaluated                                                        *)
C2_NoExceptionEscapes ==
    /\ pc # "raised"
    /\ pc = "returned" => Len(results) = Len(rules)

(* C3: a rule whose type is absent or null yields the record status=error, *)
(* rule_type=null, details=null, message "Missing 'type' in rule           *)
(* definition.", whatever else the rule holds, and no check function runs  *)
C3_MissingType ==
    /\ \A i \in Recorded :
            IsMissing(i, "type") =>
                /\ IsErrorRecord(results[i])
                /\ results[i].rule_type = None
                /\ results[i].message
                        = W(<<"Missing", "'type'", "in", "rule", "definition.">>)
                /\ ~CalledFor(i)
    /\ \A i \in RaisedAt : ~IsMissing(i, "type")

C3_Witness ==
    \E i \in Recorded :
        /\ IsMissing(i, "type")
        /\ ~IsMissing(i, "pattern")
        /\ ~IsMissing(i, "column")

(* C4: a rule whose type is a non-empty string other than the seven        *)
(* registered names yields the record status=error, rule_type = the type,  *)
(* details=null, message "Unsupported rule type: '<type>'."                *)
SevenNames ==
    {"completeness", "uniqueness", "data_type", "accuracy_range_check",
     "consistency_date_order_check", "validity_regex_match_check",
     "timeliness_fixed_range_check"}

IsUnknownType(i) ==
    /\ TypeOf(i).k = "str"
    /\ TypeOf(i).s # ""
    /\ TypeOf(i).s \notin SevenNames

C4_UnsupportedType ==
    /\ \A i \in Recorded :
            IsUnknownType(i) =>
                /\ IsErrorRecord(results[i])
                /\ results[i].rule_type = TypeOf(i)
                /\ results[i].message
                        = W(<<"Unsupported", "rule", "type:", "'">>)
                            \o <<TypeOf(i)>> \o W(<<"'.">>)
                /\ ~CalledFor(i)
    /\ \A i \in RaisedAt : ~IsUnknownType(i)

C4_Witness ==
    \E i \in Recorded :
        /\ HasType(i, "Completeness")
        /\ ~IsMissing(i, "column")
        /\ results[i].status = "error"

(* the parameters a registered type requires *)
Required(name) ==
    CASE name = "data_type" -> {"column", "expected_type"}
      [] name = "accuracy_range_check" -> {"column", "min_value", "max_value"}
      [] name = "consistency_date_order_check" -> {"column_a", "column_b"}
      [] name = "validity_regex_match_check" -> {"column", "pattern"}
      [] name = "timeliness_fixed_range_check" -> {"column", "start_date", "end_date"}
      [] OTHER -> {"column"}

Quoted(key) ==
    CASE key = "column" -> "'column'"
      [] key = "expected_type" -> "'expected_type'"
      [] key = "min_value" -> "'min_value'"
      [] key = "max_value" -> "'max_value'"
      [] key = "column_a" -> "'column_a'"
      [] key = "column_b" -> "'column_b'"
      [] key = "pattern" -> "'pattern'"
      [] key = "start_date" -> "'start_date'"
      [] key = "end_date" -> "'end_date'"

IsRegisteredType(i) == TypeOf(i).k = "str" /\ TypeOf(i).s \in SevenNames

(* the rule gets past the column step: its type has none, or it names a *)
(* column                                                               *)
PastColumnStep(i) ==
    HasType(i, "consistency_date_order_check") \/ Truthy(Param(i, "column"))

(* C5 as stated: for a rule of a registered type, every required parameter *)
(* that is missing is named, in single quotes, by the message of an error  *)
(* record that also holds the rule type                                    *)
C5_EveryMissingParameterNamed ==
    \A i \in Recorded :
        IsRegisteredType(i) =>
            \A key \in Required(TypeOf(i).s) :
                IsMissing(i, key) =>
                    /\ IsErrorRecord(results[i])
                    /\ HasWord(results[i].message, Quoted(key))
                    /\ HasValue(results[i].message, TypeOf(i))

(* C5 as amended: a rule of a registered type with a required parameter    *)
(* missing yields an error record whose message holds the rule type; the   *)
(* message names the parameter in single quotes when the parameter is      *)
(* `column`, or when the rule got past the column step; a rule stopped at  *)
(* the column step has only 'column' named                                 *)
C5_FirstMissingParameterNamed ==
    /\ \A i \in Recorded :
            IsRegisteredType(i) =>
                \A key \in Required(TypeOf(i).s) :
                    IsMissing(i, key) =>
                        /\ IsErrorRecord(results[i])
                        /\ HasValue(results[i].message, TypeOf(i))
                        /\ ~CalledFor(i)
                        /\ IF key = "column" \/ PastColumnStep(i)
                           THEN HasWord(results[i].message, Quoted(key))
                           ELSE /\ HasWord(results[i].message, "'column'")
                                /\ ~HasWord(results[i].message, Quoted(key))
    /\ \A i \in RaisedAt :
            IsRegisteredType(i) =>
                \A key \in Required(TypeOf(i).s) : ~IsMissing(i, key)

C5_Witness ==
    \E i \in Recorded :
        /\ HasType(i, "data_type")
        /\ IsMissing(i, "column")
        /\ IsMissing(i, "expected_type")
        /\ results[i].status = "error"

(* C6: a rule of a single-column type without `column` yields one error   *)
(* record whose message holds the text "Missing 'column' in <rule_type>   *)
(* rule."                                                                 *)
C6_MissingColumnText ==
    \A i \in Recorded :
        /\ IsRegisteredType(i)
        /\ ~HasType(i, "consistency_date_order_check")
        /\ IsMissing(i, "column")
        => /\ results[i].status = "error"
           /\ HasText(results[i].message,
                      W(<<"Missing", "'column'", "in">>) \o <<TypeOf(i)>>
                          \o W(<<"rule.">>))

(* C7: a validity_regex_match_check rule with a column and the empty       *)
(* string as its pattern is dispatched to the regex check and ends passed  *)
(* or failed with populated details; only an absent or null pattern yields *)
(* the "Missing 'pattern'" error record                                    *)
C7_EmptyPatternAccepted ==
    \A i \in Recorded :
        /\ HasType(i, "validity_regex_match_check")
        /\ HasColumn(dataframe, Param(i, "column"))
        => /\ Param(i, "pattern") = StrV("") =>
                /\ CalledFn(i, "check_validity_regex")
                /\ results[i].status \in {"passed", "failed"}
                /\ results[i].details # None
           /\ HasText(results[i].message, W(<<"Missing", "'pattern'">>))
                => IsMissing(i, "pattern")

(* the three types with a pair of parameters, and what the engine takes *)
(* for a missing one: a null bound, an empty or null name or date       *)
PairTypes ==
    {"accuracy_range_check", "consistency_date_order_check",
     "timeliness_fixed_range_check"}

PairOf(name) ==
    CASE name = "accuracy_range_check" -> <<"min_value", "max_value">>
      [] name = "consistency_date_order_check" -> <<"column_a", "column_b">>
      [] name = "timeliness_fixed_range_check" -> <<"start_date", "end_date">>

PairMissing(i, key) ==
    IF HasType(i, "accuracy_range_check") THEN IsMissing(i, key)
    ELSE ~Truthy(Param(i, key))

IsQuotedName(word) ==
    \/ word = StrV("'type'")
    \/ \E key \in Keys \ {"type"} : word = StrV(Quoted(key))

(* the quoted parameter names of a message, in its order *)
NamesListed(message) == SelectSeq(message, IsQuotedName)

ExpectedNames(i) ==
    LET pair == PairOf(TypeOf(i).s)
    IN  (IF PairMissing(i, pair[1]) THEN W(<<Quoted(pair[1])>>) ELSE <<>>)
            \o (IF PairMissing(i, pair[2]) THEN W(<<Quoted(pair[2])>>) ELSE <<>>)

PairListed(i) ==
    LET pair == PairOf(TypeOf(i).s)
    IN  /\ results[i].status = "error"
        /\ NamesListed(results[i].message) = ExpectedNames(i)
        /\ PairMissing(i, pair[1]) /\ PairMissing(i, pair[2]) =>
                HasText(results[i].message,
                        W(<<Quoted(pair[1]), ",", Quoted(pair[2])>>))

IsPairRuleWithMissing(i) ==
    /\ TypeOf(i).k = "str"
    /\ TypeOf(i).s \in PairTypes
    /\ \/ PairMissing(i, PairOf(TypeOf(i).s)[1])
       \/ PairMissing(i, PairOf(TypeOf(i).s)[2])

(* C8 as stated: for the three types with a pair of parameters, when one *)
(* or both of the pair are missing the message lists exactly the missing *)
(* ones, single-quoted, first then second, joined by ", "                *)
C8_ExactlyTheMissingListed ==
    \A i \in Recorded : IsPairRuleWithMissing(i) => PairListed(i)

(* C8 as amended: the same, for the rules that got past the column step  *)
(* (accuracy_range_check and timeliness_fixed_range_check rules naming a *)
(* column, every consistency_date_order_check rule); a rule stopped at   *)
(* the column step has 'column' listed and none of the pair              *)
C8_MissingOfPairListedPastColumn ==
    \A i \in Recorded :
        IsPairRuleWithMissing(i) =>
            IF PastColumnStep(i) THEN PairListed(i)
            ELSE NamesListed(results[i].message) = W(<<"'column'">>)

C8_Witness ==
    \E i \in Recorded :
        /\ HasType(i, "timeliness_fixed_range_check")
        /\ PastColumnStep(i)
        /\ IsMissing(i, "start_date")
        /\ IsMissing(i, "end_date")
        /\ Len(NamesListed(results[i].message)) = 2

(* C9: an accuracy_range_check rule with a column and both bounds: if a  *)
(* bound cannot be coerced to a float the record is status=error,        *)
(* details=null, holds both bounds as given, and the range check is not  *)
(* run; if both coerce the check gets the floats, so a numeric string    *)
(* gives the record the number gives                                     *)
AsNumber(v) == IF PyFloat(v).exc = "none" THEN IntV(PyFloat(v).rec.n) ELSE v

C9_BoundCoercion ==
    \A i \in Recorded \cup RaisedAt :
        /\ HasType(i, "accuracy_range_check")
        /\ Truthy(Param(i, "column"))
        /\ ~IsMissing(i, "min_value")
        /\ ~IsMissing(i, "max_value")
        => /\ i \in Recorded
           /\ IF PyFloat(Param(i, "min_value")).exc # "none"
                    \/ PyFloat(Param(i, "max_value")).exc # "none"
              THEN /\ IsErrorRecord(results[i])
                   /\ results[i].min_value = Param(i, "min_value")
                   /\ results[i].max_value = Param(i, "max_value")
                   /\ ~CalledFor(i)
              ELSE /\ CalledFn(i, "check_accuracy_range")
                   /\ results[i].min_value = PyFloat(Param(i, "min_value")).rec
                   /\ results[i].max_value = PyFloat(Param(i, "max_value")).rec
                   /\ results[i]
                        = RunRule(dataframe,
                                  [rules[i] EXCEPT
                                    !["min_value"] = AsNumber(@),
                                    !["max_value"] = AsNumber(@)]).rec

(* C10: for a consistency_date_order_check rule naming column_a and      *)
(* column_b, the record of run_checks has column = "<column_a> &         *)
(* <column_b>" and every other field as in the record the check function *)
(* returned, a column-not-found error included                           *)
C10_CombinedColumnOnly ==
    \A i \in Recorded :
        /\ HasType(i, "consistency_date_order_check")
        /\ Truthy(Param(i, "column_a"))
        /\ Truthy(Param(i, "column_b"))
        => LET raw == check_consistency_date_order(dataframe,
                            Param(i, "column_a"), Param(i, "column_b")).rec
           IN  /\ DOMAIN results[i] = DOMAIN raw \cup {"column"}
               /\ results[i].column
                    = <<Param(i, "column_a"), StrV("&"), Param(i, "column_b")>>
               /\ \A f \in {"rule_type", "column_a", "column_b", "status",
                            "message", "details"} :
                        f \in DOMAIN raw /\ results[i][f] = raw[f]
               /\ CalledFn(i, "check_consistency_date_order")

C10_Witness ==
    \E i \in Recorded :
        /\ HasType(i, "consistency_date_order_check")
        /\ Param(i, "column_a") = StrV("start_date")
        /\ ~HasColumn(dataframe, Param(i, "column_b"))
        /\ Truthy(Param(i, "column_b"))
        /\ results[i].status = "error"
        /\ "column" \in DOMAIN results[i]

----------------------------------------------------------------------------
(* Properties of the records *)

Statuses == {"passed", "failed", "error"}

(* the record check_validity_regex returns for a pattern re.compile rejects *)
IsRegexCompileErrorRecord(rec) ==
    /\ rec.rule_type = StrV("validity_regex_match_check")
    /\ "details" \in DOMAIN rec
    /\ DOMAIN rec.details = {"regex_compile_error"}
    /\ Len(rec.details.regex_compile_error) > 0

(* the record check_data_type returns for a column the dataset has not *)
IsDataTypeNotFoundRecord(rec) ==
    /\ rec.rule_type = StrV("data_type")
    /\ "actual_type" \in DOMAIN rec
    /\ rec.actual_type = None
    /\ HasText(rec.message, W(<<"not", "found", "in", "DataFrame.">>))

(* C11: every record has status passed, failed or error, and every record *)
(* with status=error has a details field equal to null, the record of a   *)
(* pattern that does not compile excepted (details holds                  *)
(* regex_compile_error); the column-not-found record of the data_type     *)
(* check is one of the records with details=null                          *)
C11_ErrorHasNullDetails ==
    \A i \in 1..Len(results) :
        /\ results[i].status \in Statuses
        /\ results[i].status = "error"
            => /\ "details" \in DOMAIN results[i]
               /\ \/ results[i].details = None
                  \/ IsRegexCompileErrorRecord(results[i])

(* C11 as the code has it: a record with status=error has details=null, *)
(* or is the record of a pattern that does not compile, or is the       *)
(* column-not-found record of check_data_type, which has no details     *)
(* field at all                                                         *)
C11_ErrorDetailsNullOrAbsent ==
    \A i \in 1..Len(results) :
        /\ results[i].status \in Statuses
        /\ results[i].status = "error"
            => IF "details" \in DOMAIN results[i]
               THEN \/ results[i].details = None
                    \/ IsRegexCompileErrorRecord(results[i])
               ELSE IsDataTypeNotFoundRecord(results[i])

C11_Witness ==
    \E i \in 1..Len(results) :
        /\ results[i].status = "error"
        /\ IsDataTypeNotFoundRecord(results[i])
        /\ "details" \notin DOMAIN results[i]
        /\ CalledFn(i, "check_data_type")

(* the type-specific parameters of rule i do not pass the engine's tests: *)
(* one is missing as the engine tests it, or a bound is no number         *)
ParameterFails(i) ==
    CASE HasType(i, "data_type") -> ~Truthy(Param(i, "expected_type"))
      [] HasType(i, "accuracy_range_check") ->
            \/ IsMissing(i, "min_value")
            \/ IsMissing(i, "max_value")
            \/ PyFloat(Param(i, "min_value")).exc # "none"
            \/ PyFloat(Param(i, "max_value")).exc # "none"
      [] HasType(i, "consistency_date_order_check") ->
            ~Truthy(Param(i, "column_a")) \/ ~Truthy(Param(i, "column_b"))
      [] HasType(i, "validity_regex_match_check") -> ~Truthy(Param(i, "pattern"))
      [] HasType(i, "timeliness_fixed_range_check") ->
            ~Truthy(Param(i, "start_date")) \/ ~Truthy(Param(i, "end_date"))
      [] OTHER -> FALSE

(* rule i fails a validation step of the engine: missing type, unsupported *)
(* type, missing column, type-specific parameters                          *)
FailsValidation(i) ==
    \/ ~Truthy(TypeOf(i))
    \/ ~IsRegisteredType(i)
    \/ ~PastColumnStep(i)
    \/ ParameterFails(i)

(* C12: within run_checks a rule that fails a validation step of the engine *)
(* (missing type, unsupported type, missing column, missing or              *)
(* non-coercible type-specific parameter) causes no call of a check         *)
(* function; a rule that passes them causes exactly one call, of the        *)
(* function registered for its type, made before the next rule is examined  *)
C12_ValidationGuardsDispatch ==
    /\ \A i \in Recorded \cup RaisedAt :
            IF FailsValidation(i)
            THEN ~CalledFor(i)
            ELSE CalledFn(i, RegisteredFunction(TypeOf(i).s))
    /\ \A j \in 1..Len(calls) :
            /\ calls[j].rule \in Recorded \cup RaisedAt
            /\ \A h \in 1..(j - 1) : calls[h].rule < calls[j].rule

C12_Witness ==
    /\ pc = "loop"
    /\ Len(rules) = 2
    /\ Len(results) = 2
    /\ FailsValidation(1)
    /\ results[1].status = "error"
    /\ ~FailsValidation(2)
    /\ calls = <<[fn |-> RegisteredFunction(TypeOf(2).s), rule |-> 2]>>

----------------------------------------------------------------------------
(* Properties of the check functions, called directly *)

(* the call of fn has returned its record *)
Returned(fn) == pc = "returned" /\ Len(calls) = 1 /\ calls[1].fn = fn

(* the arguments after the dataset, the record the call returned, and the *)
(* cells of a column of the dataset                                       *)
Arg(j) == calls[1].args[j]

Rec == results[1]

Cells(name) == dataframe.cells[name.s]

Rows == 1..dataframe.nrows

NullRows(name) == {j \in Rows : Cells(name)[j] = None}

(* C13: check_completeness on an existing column with k null cells out of *)
(* n rows returns details.missing_count = k and details.total_rows = n,   *)
(* with status failed iff k > 0 and passed iff k = 0; a non-empty column  *)
(* of nulls only fails with missing_count = n                             *)
C13_CompletenessCounts ==
    Returned("check_completeness") /\ HasColumn(dataframe, Arg(1))
        => LET k == Cardinality(NullRows(Arg(1)))
               n == dataframe.nrows
           IN  /\ Rec.details.missing_count = k
               /\ Rec.details.total_rows = n
               /\ Rec.status = "failed" <=> k > 0
               /\ Rec.status = "passed" <=> k = 0

C13_Witness ==
    /\ Returned("check_completeness")
    /\ HasColumn(dataframe, Arg(1))
    /\ dataframe.nrows = 2
    /\ NullRows(Arg(1)) = Rows
    /\ Rec.status = "failed"
    /\ Rec.details.missing_count = 2

(* C14: check_uniqueness on an existing column returns duplicate_count =   *)
(* the number of rows whose value occurred at an earlier row of the column *)
(* = total_rows minus the number of distinct values (a value occurring m   *)
(* times contributes m - 1; null counts as a value), with status failed    *)
(* iff duplicate_count > 0                                                 *)
C14_UniquenessCounts ==
    Returned("check_uniqueness") /\ HasColumn(dataframe, Arg(1))
        => LET col == Cells(Arg(1))
               repeats == {j \in Rows : \E h \in Rows : h < j /\ col[h] = col[j]}
               distinct == {col[j] : j \in Rows}
           IN  /\ Rec.details.duplicate_count = Cardinality(repeats)
               /\ Rec.details.duplicate_count
                    = dataframe.nrows - Cardinality(distinct)
               /\ Rec.details.total_rows = dataframe.nrows
               /\ Rec.status = "failed" <=> Rec.details.duplicate_count > 0
               /\ Rec.status = "passed" <=> Rec.details.duplicate_count = 0

C14_Witness ==
    /\ Returned("check_uniqueness")
    /\ HasColumn(dataframe, Arg(1))
    /\ dataframe.nrows = 3
    /\ \A j \in Rows : Cells(Arg(1))[j] = StrV("abc")
    /\ Rec.details.duplicate_count = 2
    /\ Rec.status = "failed"

(* C15: check_data_type on an existing column returns status passed iff   *)
(* the name of the column's type equals expected_type exactly, letter     *)
(* case included, and failed otherwise; the record holds expected_type as *)
(* given and actual_type = the name of the column's type; the status is   *)
(* never error when the column exists                                     *)
C15_DataTypeExactName ==
    Returned("check_data_type") /\ HasColumn(dataframe, Arg(1))
        => LET name == dataframe.dtype[Arg(1).s]
           IN  /\ Rec.status = "passed" <=> Arg(2) = StrV(name)
               /\ Rec.status = "failed" <=> Arg(2) # StrV(name)
               /\ Rec.expected_type = Arg(2)
               /\ Rec.actual_type = StrV(name)
               /\ Rec.status # "error"

C15_Witness ==
    /\ Returned("check_data_type")
    /\ HasColumn(dataframe, Arg(1))
    /\ dataframe.dtype[Arg(1).s] = "int64"
    /\ Arg(2) = StrV("Int64")
    /\ Rec.status = "failed"
    /\ Rec.actual_type = StrV("int64")

(* the number of a cell that Python reads as one *)
IsNumeric(cell) == PyFloat(cell).exc = "none"

NumberOf(cell) == PyFloat(cell).rec.n

(* C16: check_accuracy_range on an existing column with min_value <=        *)
(* max_value classes every cell as null, non-numeric (non-null, not         *)
(* coercible to a number) or valid numeric: valid_numeric_rows and          *)
(* non_numeric_rows are the sizes of the last two classes, in_range_count   *)
(* the number of valid numeric cells v with min_value <= v <= max_value and *)
(* out_of_range_count the number of the other valid numeric cells           *)
C16_AccuracyRangeClasses ==
    /\ Returned("check_accuracy_range")
    /\ HasColumn(dataframe, Arg(1))
    /\ Arg(2).n <= Arg(3).n
    => LET col == Cells(Arg(1))
           nulls == NullRows(Arg(1))
           valid == {j \in Rows \ nulls : IsNumeric(col[j])}
           non_numeric == {j \in Rows \ nulls : ~IsNumeric(col[j])}
           inside == {j \in valid : /\ Arg(2).n <= NumberOf(col[j])
                                    /\ NumberOf(col[j]) <= Arg(3).n}
       IN  /\ Rec.details.valid_numeric_rows = Cardinality(valid)
           /\ Rec.details.non_numeric_rows = Cardinality(non_numeric)
           /\ Rec.details.in_range_count = Cardinality(inside)
           /\ Rec.details.out_of_range_count = Cardinality(valid \ inside)
           /\ Rec.details.total_rows
                = Cardinality(nulls) + Cardinality(valid) + Cardinality(non_numeric)

C16_Witness ==
    /\ Returned("check_accuracy_range")
    /\ HasColumn(dataframe, Arg(1))
    /\ Cells(Arg(1)) = <<None, StrV("abc"), IntV(40)>>
    /\ Arg(2) = FloatV(20)
    /\ Arg(3) = FloatV(40)
    /\ Rec.details.valid_numeric_rows = 1
    /\ Rec.details.non_numeric_rows = 1
    /\ Rec.details.in_range_count = 1
    /\ Rec.details.out_of_range_count = 0

(* the call of check_consistency_date_order on two columns of the dataset *)
(* has returned                                                           *)
ReturnedDateOrder ==
    /\ Returned("check_consistency_date_order")
    /\ HasColumn(dataframe, Arg(1))
    /\ HasColumn(dataframe, Arg(2))

(* the rows by what their two cells hold *)
Parses(cell) == ~to_datetime(cell).nat

RowsWithNull == NullRows(Arg(1)) \cup NullRows(Arg(2))

RowsBothParse ==
    {j \in Rows \ RowsWithNull :
        Parses(Cells(Arg(1))[j]) /\ Parses(Cells(Arg(2))[j])}

RowsWithFailure == (Rows \ RowsWithNull) \ RowsBothParse

(* C17: in check_consistency_date_order a row with at least one null cell *)
(* is counted neither in valid_date_pairs_count nor in                    *)
(* invalid_date_pairs_count, whatever the other cell holds (a date or a   *)
(* non-null value that is no date); a row with two non-null cells of      *)
(* which at least one fails to parse is counted in                        *)
(* invalid_date_pairs_count                                               *)
C17_NullRowsInNeitherCount ==
    ReturnedDateOrder
        => /\ Rec.details.valid_date_pairs_count = Cardinality(RowsBothParse)
           /\ Rec.details.invalid_date_pairs_count = Cardinality(RowsWithFailure)

(* the day a cell that parses denotes *)
DayOf(cell) == DayOfLiteral(cell.s)

Prefixes(t) ==
    CASE t = "A" -> {"", "A"}
      [] t = "Alice" -> {"", "A", "Al", "Ali", "Alic", "Alice"}
      [] t = "BA" -> {"", "B", "BA"}

Language(pattern) ==
    CASE pattern = "" -> {""}
      [] pattern = "A" -> {"A"}
      [] pattern = "A$" -> {"A"}

EndAnchored(pattern) == pattern = "A$"

HasMatchingPrefix(pattern, t) ==
    \E x \in Prefixes(t) :
        /\ x \in Language(pattern)
        /\ EndAnchored(pattern) => x = t

(* C19: check_validity_regex on an existing column with a pattern that    *)
(* compiles returns applicable_rows_count = the number of non-null cells, *)
(* matched_count = the number of non-null cells whose text has a prefix   *)
(* the pattern matches (the match is anchored at the start only; the rest *)
(* of the text is free unless the pattern ends with the end anchor), and  *)
(* non_matched_count = applicable_rows_count - matched_count; a null cell *)
(* is neither matched nor non-matched                                     *)
C19_RegexCounts ==
    /\ Returned("check_validity_regex")
    /\ HasColumn(dataframe, Arg(1))
    /\ re_compile(Arg(2)).exc = "none"
    => LET col == Cells(Arg(1))
           applicable == Rows \ NullRows(Arg(1))
           matched == {j \in applicable : HasMatchingPrefix(Arg(2).s, col[j].s)}
       IN  /\ Rec.details.applicable_rows_count = Cardinality(applicable)
           /\ Rec.details.matched_count = Cardinality(matched)
           /\ Rec.details.non_matched_count
                = Rec.details.applicable_rows_count - Rec.details.matched_count
           /\ Rec.details.non_matched_count = Cardinality(applicable \ matched)

C19_Witness ==
    /\ Returned("check_validity_regex")
    /\ HasColumn(dataframe, Arg(1))
    /\ Cells(Arg(1)) = <<None, StrV("Alice"), StrV("BA")>>
    /\ Arg(2) = StrV("A")
    /\ Rec.details.applicable_rows_count = 2
    /\ Rec.details.matched_count = 1
    /\ Rec.details.non_matched_count = 1

(* a range parameter that is a date *)
IsDate(v) == v.k = "str" /\ IsDateLiteral(v.s)

(* C20: range parameters that are invalid force status=error with      *)
(* details=null whatever the cells of the column hold:                 *)
(* check_accuracy_range with min_value > max_value, and                *)
(* check_timeliness_fixed_range with a start_date or end_date that     *)
(* does not parse as a date or with start_date later than end_date;    *)
(* equal bounds (min = max, start = end) are no error                  *)
C20_InvalidRangeIsError ==
    /\ Returned("check_accuracy_range")
            => /\ Arg(2).n > Arg(3).n => IsErrorRecord(Rec)
               /\ Arg(2).n = Arg(3).n /\ HasColumn(dataframe, Arg(1))
                    => Rec.status # "error"
    /\ Returned("check_timeliness_fixed_range")
            => /\ ~IsDate(Arg(2)) \/ ~IsDate(Arg(3)) => IsErrorRecord(Rec)
               /\ IsDate(Arg(2)) /\ IsDate(Arg(3))
                    /\ DayOfLiteral(Arg(2).s) > DayOfLiteral(Arg(3).s)
                    => IsErrorRecord(Rec)
               /\ IsDate(Arg(2)) /\ Arg(2) = Arg(3) /\ HasColumn(dataframe, Arg(1))
                    => Rec.status # "error"

(* the call of check_timeliness_fixed_range on a column of the dataset, *)
(* with two dates start <= end, has returned                            *)
ReturnedTimeliness ==
    /\ Returned("check_timeliness_fixed_range")
    /\ HasColumn(dataframe, Arg(1))
    /\ IsDate(Arg(2))
    /\ IsDate(Arg(3))
    /\ DayOf(Arg(2)) <= DayOf(Arg(3))

RowsParsing(name) == {j \in Rows : Parses(Cells(name)[j])}

(* C21: check_timeliness_fixed_range on an existing column with valid      *)
(* start <= end returns parseable_column_dates_count = the number of cells *)
(* that parse as dates, unparseable_column_dates_count = the number of     *)
(* non-null cells that fail to parse, in_range_count = the number of       *)
(* parseable cells d with start <= d <= end, out_of_range_count = the      *)
(* other parseable cells; one unparseable non-null cell makes the status   *)
(* failed even when every parseable date is in range                       *)
C21_TimelinessCounts ==
    ReturnedTimeliness
        => LET col == Cells(Arg(1))
               parseable == RowsParsing(Arg(1))
               unparseable == (Rows \ NullRows(Arg(1))) \ parseable
               inside == {j \in parseable : /\ DayOf(Arg(2)) <= DayOf(col[j])
                                            /\ DayOf(col[j]) <= DayOf(Arg(3))}
           IN  /\ Rec.details.parseable_column_dates_count = Cardinality(parseable)
               /\ Rec.details.unparseable_column_dates_count
                    = Cardinality(unparseable)
               /\ Rec.details.in_range_count = Cardinality(inside)
               /\ Rec.details.out_of_range_count = Cardinality(parseable \ inside)
               /\ unparseable # {} => Rec.status = "failed"

C21_Witness ==
    /\ ReturnedTimeliness
    /\ Cells(Arg(1)) = <<StrV("2023-01-01"), StrV("bad date")>>
    /\ Arg(2) = StrV("2023-01-01")
    /\ Arg(3) = StrV("2023-02-01")
    /\ Rec.details.in_range_count = 1
    /\ Rec.details.out_of_range_count = 0
    /\ Rec.details.unparseable_column_dates_count = 1
    /\ Rec.status = "failed"

(* the call of one of the four counting checks on existing columns with *)
(* valid parameters has returned                                        *)
ReturnedAccuracy ==
    /\ Returned("check_accuracy_range")
    /\ HasColumn(dataframe, Arg(1))
    /\ Arg(2).n <= Arg(3).n

ReturnedRegex ==
    /\ Returned("check_validity_regex")
    /\ HasColumn(dataframe, Arg(1))
    /\ re_compile(Arg(2)).exc = "none"

ReturnedCounting ==
    ReturnedAccuracy \/ ReturnedDateOrder \/ ReturnedRegex \/ ReturnedTimeliness

(* the violation counters of the record, and the columns the call examined *)
ViolationCounters ==
    CASE ReturnedAccuracy -> {"out_of_range_count", "non_numeric_rows"}
      [] ReturnedDateOrder -> {"order_violated_count", "invalid_date_pairs_count"}
      [] ReturnedRegex -> {"non_matched_count"}
      [] ReturnedTimeliness -> {"out_of_range_count", "unparseable_column_dates_count"}

Examined == IF ReturnedDateOrder THEN {Arg(1), Arg(2)} ELSE {Arg(1)}

CallEnded == pc \in {"returned", "raised"} /\ Len(calls) = 1

Named ==
    IF calls[1].fn = "check_consistency_date_order"
    THEN {Arg(1), Arg(2)} ELSE {Arg(1)}

SomeColumnAbsent == \E name \in Named : ~HasColumn(dataframe, name)

(* the message of a column that is not found *)
IsNotFoundMessage(message) ==
    IF calls[1].fn = "check_consistency_date_order"
    THEN /\ message[1] = StrV("Column(s)")
         /\ HasText(message, W(<<"not", "found", "in", "DataFrame.">>))
    ELSE message = W(<<"Column", "'">>) \o <<Arg(1)>>
                     \o W(<<"'", "not", "found", "in", "DataFrame.">>)

(* C23: in every check function the column test comes first: when a named *)
(* column is absent from the dataset the record is status=error,          *)
(* details=null with the column-not-found message, even if the other      *)
(* parameters are invalid themselves (min_value > max_value, a pattern    *)
(* that does not compile, an unparseable start_date or end_date,          *)
(* start_date > end_date)                                                 *)
C23_ColumnTestFirst ==
    CallEnded /\ SomeColumnAbsent
        => /\ pc = "returned"
           /\ IsErrorRecord(Rec)
           /\ IsNotFoundMessage(Rec.message)

(* C23 as the code has it: the same, the record of check_data_type having *)
(* no details field                                                       *)
C23_ColumnTestFirstDetailsNullOrAbsent ==
    CallEnded /\ SomeColumnAbsent
        => /\ pc = "returned"
           /\ Rec.status = "error"
           /\ IF calls[1].fn = "check_data_type"
              THEN "details" \notin DOMAIN Rec
              ELSE "details" \in DOMAIN Rec /\ Rec.details = None
           /\ IsNotFoundMessage(Rec.message)

C23_Witness ==
    /\ Returned("check_timeliness_fixed_range")
    /\ ~HasColumn(dataframe, Arg(1))
    /\ Arg(2) = StrV("2023-02-01")
    /\ Arg(3) = StrV("not a date")
    /\ Rec.status = "error"
    /\ IsNotFoundMessage(Rec.message)

(* a text the date parser rejects *)
FailsToParse(v) == v.k = "str" /\ ~IsDate(v) /\ ~IsNullDateText(v.s)

(* the range parameters of the call are a configuration error *)
RangeParametersBad ==
    CASE calls[1].fn = "check_accuracy_range" -> Arg(2).n > Arg(3).n
      [] calls[1].fn = "check_timeliness_fixed_range" ->
            \/ FailsToParse(Arg(2))
            \/ FailsToParse(Arg(3))
            \/ IsDate(Arg(2)) /\ IsDate(Arg(3)) /\ DayOf(Arg(2)) > DayOf(Arg(3))
      [] OTHER -> FALSE

(* the message names the offending range parameters *)
IsRangeErrorMessage(message) ==
    IF calls[1].fn = "check_accuracy_range"
    THEN /\ HasText(message, W(<<"cannot", "be", "greater", "than">>))
         /\ HasValue(message, Arg(2))
         /\ HasValue(message, Arg(3))
    ELSE IF FailsToParse(Arg(2)) \/ FailsToParse(Arg(3))
    THEN HasText(message, W(<<"Invalid", "start_date", "or", "end_date",
                              "parameter", "format.">>))
    ELSE HasText(message, W(<<"Start", "date", "cannot", "be", "after",
                              "end", "date.">>))

(* C24: configuration errors in the range parameters (min_value >        *)
(* max_value, a start_date or end_date that does not parse, start_date > *)
(* end_date) are detected before any access to the dataset: the error    *)
(* record and its message naming the offending parameters are the same   *)
(* whether or not the column exists in the dataset                       *)
C24_RangeErrorWhateverTheColumn ==
    CallEnded /\ RangeParametersBad
        => /\ pc = "returned"
           /\ IsErrorRecord(Rec)
           /\ IsRangeErrorMessage(Rec.message)

(* the columns a date order call names that the dataset lacks, in order *)
AbsentNames ==
    (IF HasColumn(dataframe, Arg(1)) THEN <<>> ELSE <<Arg(1)>>)
        \o (IF HasColumn(dataframe, Arg(2)) THEN <<>> ELSE <<Arg(2)>>)

(* each name in single quotes of its own, the names joined by commas *)
QuotedNames(names) ==
    IF Len(names) = 1
    THEN W(<<"'">>) \o <<Fmt(names[1])>> \o W(<<"'">>)
    ELSE W(<<"'">>) \o <<Fmt(names[1])>> \o W(<<"'", ",", "'">>)
            \o <<Fmt(names[2])>> \o W(<<"'">>)

(* C25: check_consistency_date_order returns status=error, details=null *)
(* when column_a or column_b is absent from the dataset, and the        *)
(* message names exactly the absent columns: one name as                *)
(* "Column(s) '<name>' not found"; when both are absent, each name in   *)
(* single quotes of its own and the two joined by a comma,              *)
(* "Column(s) '<column_a>', '<column_b>' not found"                     *)
C25_DateOrderNamesAbsentColumns ==
    Returned("check_consistency_date_order") /\ AbsentNames # <<>>
        => /\ IsErrorRecord(Rec)
           /\ HasText(Rec.message, W(<<"Column(s)">>) \o QuotedNames(AbsentNames)
                                    \o W(<<"not", "found">>))

(* C26: without applicable data the date checks return status=passed with *)
(* a message of their own: on a dataset with zero rows both               *)
(* check_consistency_date_order and check_timeliness_fixed_range return a *)
(* message containing "No data to assess."; check_timeliness_fixed_range  *)
(* on a column with rows, all of them null, returns a message containing  *)
(* "Column contains only null values or is empty. No dates to check."     *)
C26_NoDataMessages ==
    /\ (ReturnedDateOrder \/ ReturnedTimeliness) /\ dataframe.nrows = 0
            => /\ Rec.status = "passed"
               /\ HasText(Rec.message, W(<<"No", "data", "to", "assess.">>))
    /\ ReturnedTimeliness /\ dataframe.nrows > 0 /\ NullRows(Arg(1)) = Rows
            => /\ Rec.status = "passed"
               /\ HasText(Rec.message,
                          W(<<"Column", "contains", "only", "null", "values",
                              "or", "is", "empty.", "No", "dates", "to",
                              "check.">>))

(* a record of status passed or failed that holds a mapping of counters *)
HoldsCounters ==
    /\ pc = "returned"
    /\ Len(calls) = 1
    /\ Rec.status \in {"passed", "failed"}
    /\ "details" \in DOMAIN Rec
    /\ Rec.details # None

SingleColumnTypes ==
    {"data_type", "accuracy_range_check", "validity_regex_match_check",
     "timeliness_fixed_range_check"}

(* C29: the validation of the engine reports the first failing step only, *)
(* in the order missing type, unsupported type, missing column (skipped   *)
(* for consistency_date_order_check), type-specific parameters: a rule    *)
(* with an unregistered type and no column gets the unsupported-type      *)
(* error; a data_type, accuracy_range_check, validity_regex_match_check   *)
(* or timeliness_fixed_range_check rule that lacks its column and its     *)
(* type-specific parameters gets the missing-column error only; a         *)
(* consistency_date_order_check rule is never rejected for lacking column *)
C29_FirstFailingStepOnly ==
    \A i \in Recorded :
        LET message == results[i].message
        IN  /\ ~Truthy(TypeOf(i))
                => /\ IsErrorRecord(results[i])
                   /\ HasWord(message, "'type'")
                   /\ ~HasWord(message, "Unsupported")
                   /\ ~HasWord(message, "'column'")
            /\ IsUnknownType(i)
                => /\ IsErrorRecord(results[i])
                   /\ HasWord(message, "Unsupported")
                   /\ ~HasWord(message, "Missing")
            /\ IsRegisteredType(i) /\ TypeOf(i).s \in SingleColumnTypes
                    /\ ~Truthy(Param(i, "column"))
                => /\ IsErrorRecord(results[i])
                   /\ HasWord(message, "'column'")
                   /\ \A key \in Required(TypeOf(i).s) \ {"column"} :
                        ~HasWord(message, Quoted(key))
            /\ HasType(i, "consistency_date_order_check")
                => /\ ~HasWord(message, "'column'")
                   /\ Truthy(Param(i, "column_a")) /\ Truthy(Param(i, "column_b"))
                        => CalledFn(i, "check_consistency_date_order")

C29_Witness ==
    \E i \in Recorded :
        /\ IsUnknownType(i)
        /\ IsMissing(i, "column")
        /\ IsMissing(i, "expected_type")
        /\ HasWord(results[i].message, "Unsupported")

(* the parameters whose empty string the engine takes as missing *)
TextKeys ==
    {"column", "expected_type", "column_a", "column_b", "start_date", "end_date"}

(* the parameters of rule i the claim is about *)
TextKeysOf(i) ==
    IF IsRegisteredType(i) THEN Required(TypeOf(i).s) \cap TextKeys ELSE {}

(* the validation of rule i gets to the parameter: the steps before pass *)
Reaches(i, key) ==
    /\ IsRegisteredType(i)
    /\ key \in Required(TypeOf(i).s)
    /\ key = "column" \/ PastColumnStep(i)

(* C30: whether an accuracy_range_check bound is there is decided by      *)
(* null-ness, not truthiness: a min_value or max_value equal to 0 is      *)
(* present and the rule is dispatched to the range check; an empty-string *)
(* column, expected_type, column_a, column_b, start_date or end_date is   *)
(* treated exactly like a missing parameter and yields the corresponding  *)
(* "Missing ..." error record                                             *)
C30_ZeroIsPresentEmptyIsMissing ==
    \A i \in Recorded :
        /\ HasType(i, "accuracy_range_check") /\ Truthy(Param(i, "column"))
                /\ IntV(0) \in {Param(i, "min_value"), Param(i, "max_value")}
                /\ ~IsMissing(i, "min_value") /\ ~IsMissing(i, "max_value")
                /\ PyFloat(Param(i, "min_value")).exc = "none"
                /\ PyFloat(Param(i, "max_value")).exc = "none"
            => /\ CalledFn(i, "check_accuracy_range")
               /\ ~HasWord(results[i].message, "Missing")
        /\ \A key \in TextKeysOf(i) :
                Param(i, key) = StrV("")
                    => LET missing == RunRule(dataframe, [rules[i] EXCEPT ![key] = Absent]).rec
                       IN  /\ IsErrorRecord(results[i])
                           /\ results[i].message = missing.message
                           /\ HasWord(results[i].message, "Missing")
                           /\ Reaches(i, key)
                                => HasWord(results[i].message, Quoted(key))
                           /\ ~CalledFor(i)

C30_Witness ==
    \E i \in Recorded :
        /\ HasType(i, "accuracy_range_check")
        /\ Param(i, "column") = StrV("age")
        /\ Param(i, "min_value") = IntV(0)
        /\ Param(i, "max_value") = IntV(40)
        /\ CalledFn(i, "check_accuracy_range")
        /\ results[i].status = "passed"

====
